---- MODULE Spec2Model ----
(***************************************************************************)
(* Verification model of the discrete-nes KiCad generation / verification  *)
(* scripts.  Lengths are integers in units of 0.0001 mm, so the comparison *)
(* tolerance of the checks is 1 and a coordinate rounded to two decimals   *)
(* is a multiple of 100.                                                   *)
(***************************************************************************)
EXTENDS Integers, Sequences, FiniteSets, TLC

VARIABLES
    data,        \* the dict returned by parse_schematic, input of every check
    issues,      \* the list returned by the last geometric check
    ran,         \* which geometric check produced `issues` ("none" before)
    sch,         \* the root schematic read by check_netlist
    parent,      \* _UnionFind._parent
    all_pts,     \* check_netlist's set all_pts
    todo,        \* points of all_pts the merge loop has not visited yet
    nets,        \* check_netlist's nets: root -> set of identifiers
    net_issues,  \* the list returned by check_netlist
    npc,         \* position inside check_netlist
    set_order,   \* the order in which this interpreter iterates the set of wire endpoints
    results,     \* run_all_checks' list `results`
    rpc,         \* how many checks run_all_checks has evaluated ("idle" outside it)
    first_call,  \* check name -> the list its first call on `data` returned
    fs,          \* the files of the board directory: name -> content (Missing if absent)
    opts,        \* the command line of the script and what it finds installed
    mpc,         \* position inside the script's main
    total_errors,    \* main's total_errors
    total_warnings,  \* main's total_warnings
    all_results,     \* verify_schematics.main's all_results: file -> file_results
    exit_code,   \* what main returned, or the status sys.exit was called with ("none" before)
    erc_json,    \* the JSON report kicad-cli wrote for run_erc (NoJson if none)
    erc_standalone,  \* run_erc's argument standalone
    erc_out,     \* the tuple run_erc returned (<<>> before)
    bbox_calls,  \* the argument tuples of the calls of _lib_bbox_to_schematic to make
    bbox_ret     \* the boxes the calls made so far returned

geomVars == <<data, issues, ran>>
netVars == <<sch, parent, all_pts, todo, nets, net_issues, npc>>
runVars == <<set_order, results, rpc, first_call>>
mainVars == <<fs, opts, mpc, total_errors, total_warnings, all_results, exit_code>>
ercVars == <<erc_json, erc_standalone, erc_out>>
bboxVars == <<bbox_calls, bbox_ret>>
\* The state of the routing script, the generators and the board builder.
VARIABLES
    console,         \* the lines route_pcb.main and the verification it started
                     \* printed
    builders,        \* the SchematicBuilders by name: their symbols with
                     \* properties and instance paths, and the root's sheet
                     \* blocks
    global_counters, \* fix_instance_paths: the last number given out per
                     \* reference prefix
    fpc,             \* fix_instance_paths: where it is, and the index of the
                     \* next sheet block
    graphicalItems,  \* SchematicBuilder.sch.graphicalItems: the wires added, in
                     \* order
    sch_junctions,   \* SchematicBuilder.sch.junctions: the junction dots added,
                     \* in order
    trunk_calls,     \* the arguments of the add_segmented_trunk calls made
    ALL_SYMBOLS,     \* symbols.ALL_SYMBOLS: None or the loaded symbols
    RAW_LIB_TEXTS,   \* symbols.RAW_LIB_TEXTS: None or the loaded raw texts
    PIN_OFFSETS,     \* symbols.PIN_OFFSETS: None or the discovered offsets
    sym_log,         \* what happened in the process: calls, loads, discoveries,
                     \* returns
    traceItems,      \* PCBBuilder.board.traceItems: the segments added, in
                     \* order
    l_calls,         \* the add_l_trace calls made: arguments and returned list
    pad_checks,      \* the footprints looked at: the box _footprint_bbox
                     \* returned and the positions get_pad_position returned
    uf_parent,       \* UnionFind._parent
    uf_unions,       \* the pairs union was called with
    uf_ret,          \* None after a union, else the last find: its argument,
                     \* what it returned, and whether the argument was new
    uf_n,            \* the number of calls made
    pcb_nets,        \* PCBBuilder._nets: the Net registered under each name
    net_counter,     \* PCBBuilder._net_counter
    board_nets,      \* the nets the builder appended to board.nets, in order
    board_zones,     \* board.zones
    pcb_ret,         \* None, or the last add_net call: its argument, the Net
                     \* returned, and what the builder held before
    pcb_asked        \* the net names the calls made so far asked for, in order

routeVars == <<console>>
fipVars == <<builders, global_counters, fpc>>
trunkVars == <<graphicalItems, sch_junctions, trunk_calls>>
symVars == <<ALL_SYMBOLS, RAW_LIB_TEXTS, PIN_OFFSETS, sym_log>>
traceVars == <<traceItems, l_calls>>
padVars == <<pad_checks>>
ufVars == <<uf_parent, uf_unions, uf_ret, uf_n>>
pcbVars == <<pcb_nets, net_counter, board_nets, board_zones, pcb_ret, pcb_asked>>
extVars == <<routeVars, fipVars, trunkVars, symVars, traceVars, padVars, ufVars, pcbVars>>

RouteIdle == console = <<>>
FipIdle == builders = <<>> /\ global_counters = <<>> /\ fpc = [at |-> "idle", i |-> 0]
TrunkIdle == graphicalItems = <<>> /\ sch_junctions = <<>> /\ trunk_calls = <<>>
SymIdle == ALL_SYMBOLS = <<>> /\ RAW_LIB_TEXTS = <<>> /\ PIN_OFFSETS = <<>> /\ sym_log = <<>>
TraceIdle == traceItems = <<>> /\ l_calls = <<>>
PadIdle == pad_checks = <<>>
UfIdle == uf_parent = <<>> /\ uf_unions = {} /\ uf_ret = <<>> /\ uf_n = 0
PcbIdle == pcb_nets = <<>> /\ net_counter = 0 /\ board_nets = <<>> /\ board_zones = <<>> /\ pcb_ret = <<>> /\ pcb_asked = <<>>
ExtIdle == RouteIdle /\ FipIdle /\ TrunkIdle /\ SymIdle /\ TraceIdle /\ PadIdle /\ UfIdle /\ PcbIdle

restOfRoute == <<geomVars, netVars, runVars, ercVars, bboxVars, fipVars, trunkVars, symVars, traceVars, padVars, ufVars, pcbVars>>
RestOfRouteExtIdle == FipIdle /\ TrunkIdle /\ SymIdle /\ TraceIdle /\ PadIdle /\ UfIdle /\ PcbIdle
restOfFip == <<geomVars, netVars, runVars, mainVars, ercVars, bboxVars, routeVars, trunkVars, symVars, traceVars, padVars, ufVars, pcbVars>>
RestOfFipExtIdle == RouteIdle /\ TrunkIdle /\ SymIdle /\ TraceIdle /\ PadIdle /\ UfIdle /\ PcbIdle
restOfTrunk == <<geomVars, netVars, runVars, mainVars, ercVars, bboxVars, routeVars, fipVars, symVars, traceVars, padVars, ufVars, pcbVars>>
RestOfTrunkExtIdle == RouteIdle /\ FipIdle /\ SymIdle /\ TraceIdle /\ PadIdle /\ UfIdle /\ PcbIdle
restOfSym == <<geomVars, netVars, runVars, mainVars, ercVars, bboxVars, routeVars, fipVars, trunkVars, traceVars, padVars, ufVars, pcbVars>>
RestOfSymExtIdle == RouteIdle /\ FipIdle /\ TrunkIdle /\ TraceIdle /\ PadIdle /\ UfIdle /\ PcbIdle
restOfTrace == <<geomVars, netVars, runVars, mainVars, ercVars, bboxVars, routeVars, fipVars, trunkVars, symVars, padVars, ufVars, pcbVars>>
RestOfTraceExtIdle == RouteIdle /\ FipIdle /\ TrunkIdle /\ SymIdle /\ PadIdle /\ UfIdle /\ PcbIdle
restOfPad == <<geomVars, netVars, runVars, mainVars, ercVars, bboxVars, routeVars, fipVars, trunkVars, symVars, traceVars, ufVars, pcbVars>>
RestOfPadExtIdle == RouteIdle /\ FipIdle /\ TrunkIdle /\ SymIdle /\ TraceIdle /\ UfIdle /\ PcbIdle
restOfUf == <<geomVars, netVars, runVars, mainVars, ercVars, bboxVars, routeVars, fipVars, trunkVars, symVars, traceVars, padVars, pcbVars>>
RestOfUfExtIdle == RouteIdle /\ FipIdle /\ TrunkIdle /\ SymIdle /\ TraceIdle /\ PadIdle /\ PcbIdle
restOfPcb == <<geomVars, netVars, runVars, mainVars, ercVars, bboxVars, routeVars, fipVars, trunkVars, symVars, traceVars, padVars, ufVars>>
RestOfPcbExtIdle == RouteIdle /\ FipIdle /\ TrunkIdle /\ SymIdle /\ TraceIdle /\ PadIdle /\ UfIdle

\* every variable of the module
vars == <<geomVars, netVars, runVars, mainVars, ercVars, bboxVars, extVars>>

\* what the geometric checks, and what check_netlist, leave alone
restOfGeom == <<netVars, set_order, results, rpc, first_call, mainVars, ercVars, bboxVars, extVars>>
restOfNet == <<geomVars, runVars, mainVars, ercVars, bboxVars, extVars>>
restOfMain == <<geomVars, netVars, runVars, ercVars, bboxVars, extVars>>
restOfErc == <<geomVars, netVars, runVars, mainVars, bboxVars, extVars>>
restOfBbox == <<geomVars, netVars, runVars, mainVars, ercVars, extVars>>

(***************************************************************************)
(* Units and small helpers                                                 *)
(***************************************************************************)
TOLERANCE == 1
SNAP_STEP == 100
MM == 100 * SNAP_STEP

Abs(v) == IF v < 0 THEN -v ELSE v
Min2(a, b) == IF a <= b THEN a ELSE b
Max2(a, b) == IF a >= b THEN a ELSE b

\* round(v, 2): the nearest multiple of 0.01 mm
snap(v) == ((2 * v + SNAP_STEP) \div (2 * SNAP_STEP)) * SNAP_STEP

pts_close(a, b) == Abs(a[1] - b[1]) < TOLERANCE /\ Abs(a[2] - b[2]) < TOLERANCE

Pt(xmm, ymm) == <<xmm * MM, ymm * MM>>

EmptyMap == [k \in {} |-> 0]

SeqsUpTo(S, n) == UNION {[1..k -> S] : k \in 0..n}

Range(s) == {s[i] : i \in DOMAIN s}

\* s with every element that already occurred earlier removed (dict key order)
RECURSIVE FirstOccurrences(_)
FirstOccurrences(s) ==
    IF s = <<>> THEN <<>>
    ELSE LET front == FirstOccurrences(SubSeq(s, 1, Len(s) - 1))
             last == s[Len(s)]
         IN IF last \in Range(front) THEN front ELSE Append(front, last)

\* lexicographic order of tuples of integers of equal length, as list.sort()
RECURSIVE TupleLess(_, _)
TupleLess(a, b) ==
    IF a = <<>> THEN FALSE
    ELSE IF a[1] # b[1] THEN a[1] < b[1]
    ELSE TupleLess(Tail(a), Tail(b))

RECURSIVE InsertSorted(_, _)
InsertSorted(s, t) ==
    IF s = <<>> THEN <<t>>
    ELSE IF TupleLess(t, s[1]) THEN <<t>> \o s
    ELSE <<s[1]>> \o InsertSorted(Tail(s), t)

RECURSIVE SortTuples(_)
SortTuples(s) ==
    IF s = <<>> THEN <<>>
    ELSE InsertSorted(SortTuples(SubSeq(s, 1, Len(s) - 1)), s[Len(s)])

RECURSIVE Flatten(_)
Flatten(ss) == IF ss = <<>> THEN <<>> ELSE ss[1] \o Flatten(Tail(ss))

(***************************************************************************)
(* parse_schematic's result                                                *)
(***************************************************************************)
EmptyData ==
    [wires |-> <<>>, pins |-> <<>>, pin_positions |-> {}, pin_stubs |-> <<>>, junctions |-> {},
     labels |-> {}, no_connects |-> {}, sheet_pins |-> {}, sheet_blocks |-> <<>>,
     page_size |-> <<594 * MM, 420 * MM>>, components |-> <<>>,
     lib_bboxes |-> EmptyMap, lib_body_bboxes |-> EmptyMap]

X1(w) == w[1][1]
Y1(w) == w[1][2]
X2(w) == w[2][1]
Y2(w) == w[2][2]

\* the tests `abs(y1 - y2) < TOLERANCE` and `elif abs(x1 - x2) < TOLERANCE`
IsHorizontalWire(w) == Abs(Y1(w) - Y2(w)) < TOLERANCE
IsVerticalWire(w) == ~IsHorizontalWire(w) /\ Abs(X1(w) - X2(w)) < TOLERANCE

(***************************************************************************)
(* check_wire_overlaps                                                     *)
(***************************************************************************)
\* h_wires: (y, x_min, x_max, idx), idx counting from 0
h_wires(wires) ==
    LET idxs == SelectSeq([i \in 1..Len(wires) |-> i],
                          LAMBDA i : IsHorizontalWire(wires[i]))
    IN [k \in 1..Len(idxs) |->
          LET w == wires[idxs[k]]
          IN <<snap(Y1(w)), Min2(X1(w), X2(w)), Max2(X1(w), X2(w)), idxs[k] - 1>>]

\* v_wires: (x, y_min, y_max, idx)
v_wires(wires) ==
    LET idxs == SelectSeq([i \in 1..Len(wires) |-> i],
                          LAMBDA i : IsVerticalWire(wires[i]))
    IN [k \in 1..Len(idxs) |->
          LET w == wires[idxs[k]]
          IN <<snap(X1(w)), Min2(Y1(w), Y2(w)), Max2(Y1(w), Y2(w)), idxs[k] - 1>>]

\* the keys of by_y / by_x in insertion order
GroupKeys(ws) == FirstOccurrences([k \in 1..Len(ws) |-> ws[k][1]])

\* by_y[y] after segs.sort()
SortedSegs(ws, key) ==
    LET mine == SelectSeq(ws, LAMBDA t : t[1] = key)
    IN SortTuples([k \in 1..Len(mine) |-> <<mine[k][2], mine[k][3], mine[k][4]>>])

\* the test `overlap_end - overlap_start > TOLERANCE`
RangesTouchOrOverlap(a_min, a_max, b_min, b_max) ==
    Min2(a_max, b_max) - Max2(a_min, b_min) > -TOLERANCE

RangesOverlap(a_min, a_max, b_min, b_max) ==
    Min2(a_max, b_max) - Max2(a_min, b_min) > TOLERANCE

OverlapIssue(kind, key, a, b) ==
    [kind |-> kind, at |-> key,
     a_idx |-> a[3], a_min |-> a[1], a_max |-> a[2],
     b_idx |-> b[3], b_min |-> b[1], b_max |-> b[2],
     overlap_start |-> Max2(a[1], b[1]), overlap_end |-> Min2(a[2], b[2])]

\* the double loop `for i in range(len(segs)): for j in range(i + 1, len(segs))`
RECURSIVE SegPairIssues(_, _, _, _, _)
SegPairIssues(kind, key, segs, i, j) ==
    IF i > Len(segs) THEN <<>>
    ELSE IF j > Len(segs) THEN SegPairIssues(kind, key, segs, i + 1, i + 2)
    ELSE (IF RangesOverlap(segs[i][1], segs[i][2], segs[j][1], segs[j][2])
          THEN <<OverlapIssue(kind, key, segs[i], segs[j])>>
          ELSE <<>>)
         \o SegPairIssues(kind, key, segs, i, j + 1)

GroupIssues(kind, ws) ==
    LET keys == GroupKeys(ws)
    IN Flatten([k \in 1..Len(keys) |->
                  SegPairIssues(kind, keys[k], SortedSegs(ws, keys[k]), 1, 2)])

check_wire_overlaps(d) ==
    GroupIssues("H", h_wires(d.wires)) \o GroupIssues("V", v_wires(d.wires))

(***************************************************************************)
(* Idle values of the two groups of variables                              *)
(***************************************************************************)
EmptySch ==
    [exists |-> TRUE, wires |-> <<>>, sheet_pins |-> <<>>, labels |-> <<>>, comp_pins |-> <<>>,
     junctions |-> {}]

GeomIdle == data = EmptyData /\ issues = <<>> /\ ran = "none"

NetIdle ==
    /\ sch = EmptySch
    /\ parent = EmptyMap
    /\ all_pts = {}
    /\ todo = {}
    /\ nets = EmptyMap
    /\ net_issues = <<>>
    /\ npc = "idle"

RunIdle ==
    /\ set_order = <<>>
    /\ results = <<>>
    /\ rpc = "idle"
    /\ first_call = EmptyMap

Missing == [exists |-> FALSE]
NoJson == [exists |-> FALSE]

MainIdle ==
    /\ fs = EmptyMap
    /\ opts = EmptyMap
    /\ mpc = [at |-> "idle", i |-> 0]
    /\ total_errors = 0
    /\ total_warnings = 0
    /\ all_results = EmptyMap
    /\ exit_code = "none"

ErcIdle ==
    /\ erc_json = NoJson
    /\ erc_standalone = FALSE
    /\ erc_out = <<>>

BboxIdle == bbox_calls = <<>> /\ bbox_ret = <<>>

BaseIdle == GeomIdle /\ NetIdle /\ RunIdle /\ MainIdle /\ ErcIdle /\ BboxIdle

RestOfGeomIdle == NetIdle /\ RunIdle /\ MainIdle /\ ErcIdle /\ BboxIdle /\ ExtIdle

RestOfNetIdle == GeomIdle /\ RunIdle /\ MainIdle /\ ErcIdle /\ BboxIdle /\ ExtIdle

RestOfMainIdle == GeomIdle /\ NetIdle /\ RunIdle /\ ErcIdle /\ BboxIdle /\ ExtIdle

RestOfErcIdle == GeomIdle /\ NetIdle /\ RunIdle /\ MainIdle /\ BboxIdle /\ ExtIdle

RestOfBboxIdle == GeomIdle /\ NetIdle /\ RunIdle /\ MainIdle /\ ErcIdle /\ ExtIdle

(***************************************************************************)
(* Wire overlaps: inputs and the run of the check                          *)
(***************************************************************************)
MaxOverlapWires == 3

OverlapPoints == {Pt(0, 0), Pt(3, 0), Pt(5, 0), Pt(8, 0), Pt(0, 3), Pt(5, 3)}

OverlapWireChoices ==
    {w \in OverlapPoints \X OverlapPoints :
        \/ Y1(w) = Y2(w)
        \/ X1(w) = X2(w)
        \/ w = <<Pt(0, 0), Pt(5, 3)>>}

RunWireOverlaps ==
    /\ ran = "none"
    /\ issues' = check_wire_overlaps(data)
    /\ ran' = "wire_overlaps"
    /\ UNCHANGED <<data, restOfGeom>>

InitOverlap ==
    /\ data \in {[EmptyData EXCEPT !.wires = ws] :
                    ws \in SeqsUpTo(OverlapWireChoices, MaxOverlapWires)}
    /\ issues = <<>>
    /\ ran = "none"
    /\ RestOfGeomIdle

NextOverlap == RunWireOverlaps

SpecOverlap == InitOverlap /\ [][NextOverlap]_vars

\* the declarative reading of "same line, ranges share a stretch of positive length"
SameLineOverlap(w1, w2) ==
    \/ /\ Y1(w1) = Y2(w1) /\ Y1(w2) = Y2(w2) /\ Y1(w1) = Y1(w2)
       /\ Min2(Max2(X1(w1), X2(w1)), Max2(X1(w2), X2(w2)))
            > Max2(Min2(X1(w1), X2(w1)), Min2(X1(w2), X2(w2)))
    \/ /\ X1(w1) = X2(w1) /\ X1(w2) = X2(w2) /\ X1(w1) = X1(w2)
       /\ Min2(Max2(Y1(w1), Y2(w1)), Max2(Y1(w2), Y2(w2)))
            > Max2(Min2(Y1(w1), Y2(w1)), Min2(Y1(w2), Y2(w2)))

\* how many issues name the wires with (0-based) indices i and j
ReportsOfPair(i, j) ==
    Cardinality({k \in 1..Len(issues) : {issues[k].a_idx, issues[k].b_idx} = {i, j}})

ScenarioWires == << <<Pt(0, 0), Pt(5, 0)>>, <<Pt(3, 0), Pt(8, 0)>> >>

\* C1: check_wire_overlaps returns exactly one issue for each unordered pair of
\* distinct wires on the same line whose ranges share a stretch of positive
\* length and none for any other pair, whatever the order of the wires and of
\* their endpoints; every issue names the line and the shared range of its pair;
\* for (0,0)-(5,0) and (3,0)-(8,0) the only issue is an H overlap at Y=0 sharing [3,5].
C1_OverlapExactlyOnePerPair ==
    ran = "wire_overlaps" =>
        /\ \A i, j \in 1..Len(data.wires) :
              i < j =>
                ReportsOfPair(i - 1, j - 1) =
                    IF SameLineOverlap(data.wires[i], data.wires[j]) THEN 1 ELSE 0
        /\ \A k \in 1..Len(issues) :
              LET r == issues[k]
                  wa == data.wires[r.a_idx + 1]
                  wb == data.wires[r.b_idx + 1]
              IN /\ r.a_idx # r.b_idx
                 /\ r.kind = (IF Y1(wa) = Y2(wa) THEN "H" ELSE "V")
                 /\ r.at = (IF r.kind = "H" THEN Y1(wa) ELSE X1(wa))
                 /\ r.overlap_start < r.overlap_end
                 /\ \A v \in {r.overlap_start, r.overlap_end} :
                       \A w \in {wa, wb} :
                          IF r.kind = "H"
                          THEN Min2(X1(w), X2(w)) <= v /\ v <= Max2(X1(w), X2(w))
                          ELSE Min2(Y1(w), Y2(w)) <= v /\ v <= Max2(Y1(w), Y2(w))
        /\ data.wires = ScenarioWires =>
              /\ Len(issues) = 1
              /\ issues[1].kind = "H" /\ issues[1].at = 0
              /\ issues[1].overlap_start = 3 * MM /\ issues[1].overlap_end = 5 * MM

C1_Witness ==
    /\ ran = "wire_overlaps"
    /\ data.wires = ScenarioWires
    /\ Len(issues) = 1

(***************************************************************************)
(* _UnionFind                                                              *)
(***************************************************************************)
\* the loop of find: path halving until a self-parent is reached
RECURSIVE FindLoop(_, _)
FindLoop(p, x) ==
    IF p[x] = x THEN [root |-> x, parent |-> p]
    ELSE LET p2 == [p EXCEPT ![x] = p[p[x]]]
         IN FindLoop(p2, p2[x])

\* a find whose compression makes its argument a root of its own
find_detaching(p, x) ==
    LET found == FindLoop(IF x \in DOMAIN p THEN p ELSE p @@ (x :> x), x)
    IN  [root |-> found.root, parent |-> [found.parent EXCEPT ![x] = x]]

\* find(x): the root found and _parent as find leaves it
find(p, x) == FindLoop(IF x \in DOMAIN p THEN p ELSE p @@ (x :> x), x)

\* a union that re-parents the element instead of its root
union_of_elements(p, a, b) ==
    LET fa == find(p, a)
        fb == find(fa.parent, b)
    IN IF fa.root # fb.root THEN [fb.parent EXCEPT ![a] = fb.root] ELSE fb.parent

\* union(a, b): _parent afterwards
union(p, a, b) ==
    LET fa == find(p, a)
        fb == find(fa.parent, b)
    IN IF fa.root # fb.root THEN [fb.parent EXCEPT ![fa.root] = fb.root] ELSE fb.parent

\* the root of x with _parent left alone (what a later find(x) returns)
RootOf(p, x) == IF x \in DOMAIN p THEN find(p, x).root ELSE x

(***************************************************************************)
(* check_netlist                                                           *)
(***************************************************************************)
\* a dict filled by `d[item.pt] = item.id` over a list: insertion-ordered keys,
\* the last value written for each key
DictItems(items) ==
    LET keys == FirstOccurrences([i \in 1..Len(items) |-> items[i].pt])
    IN [k \in 1..Len(keys) |->
          LET last == CHOOSE i \in 1..Len(items) :
                         /\ items[i].pt = keys[k]
                         /\ \A j \in (i + 1)..Len(items) : items[j].pt # keys[k]
          IN [pt |-> keys[k], id |-> items[last].id]]

sheet_pin_ids(s) == DictItems(s.sheet_pins)
label_pts(s) == DictItems(s.labels)
comp_pin_ids(s) == DictItems(s.comp_pins)

\* `uf.union(p1, p2)` for every wire, in file order
RECURSIVE UnionWires(_, _)
UnionWires(p, wires) ==
    IF wires = <<>> THEN p
    ELSE UnionWires(union(p, wires[1][1], wires[1][2]), Tail(wires))

AllPts(s) ==
    UNION {{w[1], w[2]} : w \in Range(s.wires)}
      \cup {it.pt : it \in Range(s.sheet_pins)}
      \cup {it.pt : it \in Range(s.labels)}
      \cup {it.pt : it \in Range(s.comp_pins)}
      \cup s.junctions

\* a point counts as touching a wire only at the wire's two ends
TouchesWireEnd(pt, w) == pts_close(pt, w[1]) \/ pts_close(pt, w[2])

\* the span test of the merge loop, horizontal branch first
TouchesWire(pt, w) ==
    IF Abs(Y1(w) - Y2(w)) < TOLERANCE
    THEN /\ Abs(pt[2] - Y1(w)) < TOLERANCE
         /\ Min2(X1(w), X2(w)) - TOLERANCE <= pt[1]
         /\ pt[1] <= Max2(X1(w), X2(w)) + TOLERANCE
    ELSE IF Abs(X1(w) - X2(w)) < TOLERANCE
    THEN /\ Abs(pt[1] - X1(w)) < TOLERANCE
         /\ Min2(Y1(w), Y2(w)) - TOLERANCE <= pt[2]
         /\ pt[2] <= Max2(Y1(w), Y2(w)) + TOLERANCE
    ELSE FALSE

\* the inner loop `for (x1, y1), (x2, y2) in wires` for one pt
RECURSIVE MergePointWires(_, _, _)
MergePointWires(p, pt, wires) ==
    IF wires = <<>> THEN p
    ELSE MergePointWires(
            IF TouchesWire(pt, wires[1]) THEN union(p, pt, wires[1][1]) ELSE p,
            pt, Tail(wires))

\* label_groups[name]: the points of that text in label_pts order
LabelGroup(lp, name) ==
    LET mine == SelectSeq(lp, LAMBDA it : it.id = name)
    IN [k \in 1..Len(mine) |-> mine[k].pt]

\* `for i in range(1, len(pts)): uf.union(pts[0], pts[i])`
RECURSIVE UnionGroup(_, _, _)
UnionGroup(p, pts, i) ==
    IF i > Len(pts) THEN p
    ELSE UnionGroup(union(p, pts[1], pts[i]), pts, i + 1)

RECURSIVE UnionLabelGroups(_, _, _)
UnionLabelGroups(p, lp, names) ==
    IF names = <<>> THEN p
    ELSE UnionLabelGroups(UnionGroup(p, LabelGroup(lp, names[1]), 2), lp, Tail(names))

MergeSameNameLabels(p, s) ==
    LET lp == label_pts(s)
    IN UnionLabelGroups(p, lp, FirstOccurrences([k \in 1..Len(lp) |-> lp[k].id]))

\* `nets[uf.find(pt)].add(...)` over a dict's items; find compresses paths
RECURSIVE AddToNets(_, _, _, _)
AddToNets(p, n, items, prefix) ==
    IF items = <<>> THEN [parent |-> p, nets |-> n]
    ELSE LET f == find(p, items[1].pt)
             old == IF f.root \in DOMAIN n THEN n[f.root] ELSE {}
             n2 == [r \in DOMAIN n \cup {f.root} |->
                      IF r = f.root THEN old \cup {prefix \o items[1].id} ELSE n[r]]
         IN AddToNets(f.parent, n2, Tail(items), prefix)

BuildNets(p, s) ==
    LET a == AddToNets(p, EmptyMap, sheet_pin_ids(s), "")
    IN AddToNets(a.parent, a.nets, label_pts(s), "label:")

\* a test that only asks whether both identifiers are on some net
on_some_nets(n, id_a, id_b) ==
    (\E root \in DOMAIN n : id_a \in n[root]) /\ (\E root \in DOMAIN n : id_b \in n[root])

on_same_net(n, id_a, id_b) == \E root \in DOMAIN n : id_a \in n[root] /\ id_b \in n[root]

id_exists(n, identifier) == \E root \in DOMAIN n : identifier \in n[root]

\* the expected connections, in the order the code tests them
ExpectedSel ==
    Flatten([k \in 1..8 |->
       LET i == ToString(k - 1)
       IN << [a |-> "Address Decoder:SEL" \o i, b |-> "Write Clk Gen:SEL" \o i],
             [a |-> "Address Decoder:SEL" \o i, b |-> "Read OE Gen:SEL" \o i] >>])

ExpectedControl ==
    << [a |-> "Control Logic:WRITE_ACTIVE", b |-> "Write Clk Gen:WRITE_ACTIVE"],
       [a |-> "Control Logic:READ_EN", b |-> "Read OE Gen:READ_EN"] >>

ExpectedWriteClk ==
    [k \in 1..8 |-> [a |-> "Write Clk Gen:WRITE_CLK_" \o ToString(k - 1),
                     b |-> "Byte " \o ToString(k - 1) \o ":WRITE_CLK"]]

ExpectedBufOe ==
    [k \in 1..8 |-> [a |-> "Read OE Gen:BUF_OE_" \o ToString(k - 1),
                     b |-> "Byte " \o ToString(k - 1) \o ":BUF_OE"]]

ExpectedData ==
    Flatten([k \in 1..8 |->
       [m \in 1..8 |-> [a |-> "label:D" \o ToString(k - 1),
                        b |-> "Byte " \o ToString(m - 1) \o ":D" \o ToString(k - 1)]]])

ExpectedConnections ==
    ExpectedSel \o ExpectedControl \o ExpectedWriteClk \o ExpectedBufOe \o ExpectedData

RequiredIds ==
    << "Address Decoder:A0", "Address Decoder:A1", "Address Decoder:A2",
       "Control Logic:nCE", "Control Logic:nOE", "Control Logic:nWE" >>

isolation_pairs ==
    << <<"Address Decoder:A0", "Address Decoder:A1">>,
       <<"Address Decoder:A0", "Address Decoder:A2">>,
       <<"Address Decoder:A1", "Address Decoder:A2">>,
       <<"Control Logic:nCE", "Control Logic:nOE">>,
       <<"Control Logic:nCE", "Control Logic:nWE">>,
       <<"Control Logic:nOE", "Control Logic:nWE">>,
       <<"Address Decoder:SEL0", "Address Decoder:SEL1">>,
       <<"Address Decoder:SEL0", "Address Decoder:SEL7">>,
       <<"Write Clk Gen:WRITE_CLK_0", "Write Clk Gen:WRITE_CLK_1">>,
       <<"Write Clk Gen:WRITE_CLK_0", "Write Clk Gen:WRITE_CLK_7">>,
       <<"Read OE Gen:BUF_OE_0", "Read OE Gen:BUF_OE_1">>,
       <<"Read OE Gen:BUF_OE_0", "Read OE Gen:BUF_OE_7">>,
       <<"label:D0", "Address Decoder:A0">>,
       <<"label:D0", "Control Logic:nCE">>,
       <<"Control Logic:WRITE_ACTIVE", "Control Logic:READ_EN">> >>

NotConnectedIssue(e) == [kind |-> "not connected", a |-> e.a, b |-> e.b]
NotFoundIssue(id) == [kind |-> "not found in any net", a |-> id, b |-> id]
NetMergeIssue(pr) == [kind |-> "NET MERGE", a |-> pr[1], b |-> pr[2]]

MergedPairs(n) == SelectSeq(isolation_pairs, LAMBDA pr : on_same_net(n, pr[1], pr[2]))

\* the issue list check_netlist builds from nets
NetlistIssues(n) ==
    LET unconnected == SelectSeq(ExpectedConnections,
                                 LAMBDA e : ~on_same_net(n, e.a, e.b))
        absent == SelectSeq(RequiredIds, LAMBDA id : ~id_exists(n, id))
        merged == MergedPairs(n)
    IN [k \in 1..Len(unconnected) |-> NotConnectedIssue(unconnected[k])]
         \o [k \in 1..Len(absent) |-> NotFoundIssue(absent[k])]
         \o [k \in 1..Len(merged) |-> NetMergeIssue(merged[k])]

\* reading the schematic: wires unioned in file order, all_pts collected
NetCollect ==
    /\ npc = "idle"
    /\ sch.exists
    /\ parent' = UnionWires(parent, sch.wires)
    /\ all_pts' = AllPts(sch)
    /\ todo' = AllPts(sch)
    /\ npc' = "merge_points"
    /\ UNCHANGED <<sch, nets, net_issues, restOfNet>>

\* the early return when ram.kicad_sch does not exist
NetFileMissing ==
    /\ npc = "idle"
    /\ ~sch.exists
    /\ net_issues' = << [kind |-> "ram.kicad_sch not found", a |-> "", b |-> ""] >>
    /\ npc' = "done"
    /\ UNCHANGED <<sch, parent, all_pts, todo, nets, restOfNet>>

\* one iteration of `for pt in all_pts` (a set: any order)
NetMergePoint ==
    /\ npc = "merge_points"
    /\ \E pt \in todo :
          /\ parent' = MergePointWires(parent, pt, sch.wires)
          /\ todo' = todo \ {pt}
    /\ UNCHANGED <<sch, all_pts, nets, net_issues, npc, restOfNet>>

NetMergeLabels ==
    /\ npc = "merge_points"
    /\ todo = {}
    /\ parent' = MergeSameNameLabels(parent, sch)
    /\ npc' = "build_nets"
    /\ UNCHANGED <<sch, all_pts, todo, nets, net_issues, restOfNet>>

NetBuildAndCheck ==
    /\ npc = "build_nets"
    /\ LET b == BuildNets(parent, sch)
       IN /\ parent' = b.parent
          /\ nets' = b.nets
          /\ net_issues' = NetlistIssues(b.nets)
    /\ npc' = "done"
    /\ UNCHANGED <<sch, all_pts, todo, restOfNet>>

NextNet ==
    \/ NetCollect
    \/ NetFileMissing
    \/ NetMergePoint
    \/ NetMergeLabels
    \/ NetBuildAndCheck

(***************************************************************************)
(* Netlist check: inputs                                                   *)
(***************************************************************************)
MaxNetItems == 4

NetL == Pt(0, 1)
NetC == Pt(1, 1)
NetR == Pt(2, 1)
NetT == Pt(1, 0)
NetB == Pt(1, 2)

NetWireChoices ==
    { <<NetL, NetR>>, <<NetT, NetB>>, <<NetC, NetB>>, <<NetL, NetC>>, <<NetR, NetB>> }

NetSheetPinChoices ==
    { [pt |-> NetL, id |-> "Address Decoder:A0"],
      [pt |-> NetR, id |-> "Address Decoder:A1"],
      [pt |-> NetL, id |-> "Address Decoder:A1"],
      [pt |-> NetB, id |-> "Address Decoder:A1"],
      [pt |-> NetT, id |-> "Address Decoder:SEL0"],
      [pt |-> NetB, id |-> "Write Clk Gen:SEL0"],
      [pt |-> NetL, id |-> "Byte 0:D0"],
      [pt |-> NetR, id |-> "Byte 1:D0"] }

NetLabelChoices ==
    { [pt |-> NetL, id |-> "D0"], [pt |-> NetR, id |-> "D0"], [pt |-> NetC, id |-> "D0"],
      [pt |-> NetL, id |-> "D1"], [pt |-> NetB, id |-> "D1"] }

NetJunctionChoices == {NetC}

NetCompPinChoices == { [pt |-> NetC, id |-> "R1:1"] }

InitNet ==
    /\ RestOfNetIdle
    /\ parent = EmptyMap
    /\ all_pts = {}
    /\ todo = {}
    /\ nets = EmptyMap
    /\ net_issues = <<>>
    /\ npc = "idle"
    /\ \/ sch = [EmptySch EXCEPT !.exists = FALSE]
       \/ \E nw \in 0..MaxNetItems :
          \E ns \in 0..(MaxNetItems - nw) :
          \E nl \in 0..(MaxNetItems - nw - ns) :
          \E js \in SUBSET NetJunctionChoices :
          \E cp \in SeqsUpTo(NetCompPinChoices, 1) :
             /\ nw + ns + nl + Cardinality(js) + Len(cp) <= MaxNetItems
             /\ sch \in [exists : {TRUE},
                         wires : [1..nw -> NetWireChoices],
                         sheet_pins : [1..ns -> NetSheetPinChoices],
                         labels : [1..nl -> NetLabelChoices],
                         comp_pins : {cp},
                         junctions : {js}]

SpecNet == InitNet /\ [][NextNet]_vars

(***************************************************************************)
(* Netlist check: the connectivity the union rules generate, stated on the *)
(* schematic alone                                                         *)
(***************************************************************************)
\* pt lies on the span of a horizontal or vertical wire, ends included
OnWireSpan(pt, w) ==
    \/ /\ Y1(w) = Y2(w) /\ pt[2] = Y1(w)
       /\ Min2(X1(w), X2(w)) <= pt[1] /\ pt[1] <= Max2(X1(w), X2(w))
    \/ /\ X1(w) = X2(w) /\ pt[1] = X1(w)
       /\ Min2(Y1(w), Y2(w)) <= pt[2] /\ pt[2] <= Max2(Y1(w), Y2(w))

WireEndPts(s) == UNION {{w[1], w[2]} : w \in Range(s.wires)}

\* the pin, label, junction and sheet-pin points
EntityPts(s) ==
    {it.pt : it \in Range(s.sheet_pins)} \cup {it.pt : it \in Range(s.labels)}
      \cup {it.pt : it \in Range(s.comp_pins)} \cup s.junctions

WireEdges(s) == {<<w[1], w[2]>> : w \in Range(s.wires)}

SpanEdges(s, pts) ==
    {e \in pts \X WireEndPts(s) :
        \E w \in Range(s.wires) : e[2] = w[1] /\ OnWireSpan(e[1], w)}

\* same text among the labels check_netlist keeps (one per point)
KeptLabelEdges(s) ==
    {e \in EntityPts(s) \X EntityPts(s) :
        \E a, b \in Range(label_pts(s)) : a.pt = e[1] /\ b.pt = e[2] /\ a.id = b.id}

\* same text among the labels drawn in the schematic
DrawnLabelEdges(s) ==
    {e \in EntityPts(s) \X EntityPts(s) :
        \E a, b \in Range(s.labels) : a.pt = e[1] /\ b.pt = e[2] /\ a.id = b.id}

\* the three rules with rule 2 applied to pin/label/junction/sheet-pin points only
StatedEdges(s) == WireEdges(s) \cup SpanEdges(s, EntityPts(s)) \cup KeptLabelEdges(s)

\* the three rules with rule 2 applied to every point, wire ends included
BuiltEdges(s) ==
    WireEdges(s) \cup SpanEdges(s, EntityPts(s) \cup WireEndPts(s)) \cup KeptLabelEdges(s)

\* the connectivity of the schematic as drawn
DrawnEdges(s) ==
    WireEdges(s) \cup SpanEdges(s, EntityPts(s) \cup WireEndPts(s)) \cup DrawnLabelEdges(s)

RECURSIVE Component(_, _)
Component(E, S) ==
    LET N == S \cup {e[2] : e \in {f \in E : f[1] \in S}}
               \cup {e[1] : e \in {f \in E : f[2] \in S}}
    IN IF N = S THEN S ELSE Component(E, N)

Linked(E, a, b) == b \in Component(E, {a})

\* the identifiers check_netlist keeps, and the points that carry them
KeptIds(s) ==
    {it.id : it \in Range(sheet_pin_ids(s))}
      \cup {"label:" \o it.id : it \in Range(label_pts(s))}

Carriers(s, id) ==
    {it.pt : it \in {x \in Range(sheet_pin_ids(s)) : x.id = id}}
      \cup {it.pt : it \in {x \in Range(label_pts(s)) : "label:" \o x.id = id}}

\* every identifier drawn in the schematic, and one that never is
DrawnIds(s) ==
    {it.id : it \in Range(s.sheet_pins)} \cup {"label:" \o it.id : it \in Range(s.labels)}
      \cup {"Address Decoder:A2"}

NetDone == npc = "done" /\ sch.exists

\* C2 as stated: on_same_net(a, b) holds exactly when both identifiers exist and
\* their points are related by the closure of: wire ends; pin/label/junction/
\* sheet-pin points on a wire's span; same-text labels.
C2_SameNetIffStatedRules ==
    NetDone =>
        \A a, b \in DrawnIds(sch) :
            on_same_net(nets, a, b) <=>
                \E pa \in Carriers(sch, a), pb \in Carriers(sch, b) :
                    Linked(StatedEdges(sch), pa, pb)

\* C2 amended: on_same_net(a, b) holds exactly when both identifiers exist and
\* their points are related by the closure of: wire ends; any point (a wire end
\* too) on a wire's span; same-text labels.  Wires crossing at interior points
\* with nothing at the crossing stay apart.
C2_SameNetIffBuiltRules ==
    NetDone =>
        /\ \A a \in DrawnIds(sch) : id_exists(nets, a) <=> Carriers(sch, a) # {}
        /\ \A a, b \in DrawnIds(sch) :
              on_same_net(nets, a, b) <=>
                  \E pa \in Carriers(sch, a), pb \in Carriers(sch, b) :
                      Linked(BuiltEdges(sch), pa, pb)

\* a wire end on another wire's interior joins two identifiers with no pin,
\* label, junction or sheet pin at the contact
C2_Witness ==
    /\ NetDone
    /\ Range(sch.wires) = { <<NetL, NetR>>, <<NetC, NetB>> }
    /\ NetC \notin EntityPts(sch)
    /\ on_same_net(nets, "Address Decoder:A0", "Write Clk Gen:SEL0")

IssueSet == Range(net_issues)

\* two sheet pins drawn in the schematic whose points are connected
ShortedInSchematic(s, id_a, id_b) ==
    \E a, b \in Range(s.sheet_pins) :
        a.id = id_a /\ b.id = id_b /\ Linked(DrawnEdges(s), a.pt, b.pt)

\* C3: check_netlist reports NET MERGE for exactly the isolation pairs that are on
\* the same net and an issue for exactly the expected connections that are not;
\* when Address Decoder:A0 and Address Decoder:A1 are shorted in the schematic
\* the list holds the NET MERGE entry of that pair.
C3_NetMergeReported ==
    NetDone =>
        /\ \A k \in DOMAIN isolation_pairs :
              NetMergeIssue(isolation_pairs[k]) \in IssueSet
                <=> on_same_net(nets, isolation_pairs[k][1], isolation_pairs[k][2])
        /\ \A k \in DOMAIN ExpectedConnections :
              NotConnectedIssue(ExpectedConnections[k]) \in IssueSet
                <=> ~on_same_net(nets, ExpectedConnections[k].a, ExpectedConnections[k].b)
        /\ ShortedInSchematic(sch, "Address Decoder:A0", "Address Decoder:A1")
              => NetMergeIssue(<<"Address Decoder:A0", "Address Decoder:A1">>) \in IssueSet

\* C4: all points that carry a label of the same text are in one net, wired or
\* not; a label D0 on two sheet-pin points, one of them Byte 0:D0, puts label:D0
\* and Byte 0:D0 on the same net; labels of different text are not merged by
\* this rule.
C4_SameTextLabelsOneNet ==
    NetDone =>
        /\ \A a, b \in Range(sch.labels) :
              a.id = b.id => RootOf(parent, a.pt) = RootOf(parent, b.pt)
        /\ \A a \in Range(sch.labels), sp \in Range(sch.sheet_pins) :
              (a.id = "D0" /\ sp.id = "Byte 0:D0" /\ sp.pt = a.pt)
                 => on_same_net(nets, "label:D0", "Byte 0:D0")
        /\ \A a, b \in Range(sch.labels) :
              (a.id # b.id /\ ~Linked(DrawnEdges(sch), a.pt, b.pt))
                 => RootOf(parent, a.pt) # RootOf(parent, b.pt)

MergeLoopOver == npc \in {"build_nets", "done"} /\ sch.exists

\* C5: once the merge loop is over, every pin, label, junction or sheet-pin point
\* on the span of a horizontal or vertical wire (an end or strictly inside) has
\* the root of both ends of that wire.
C5_PointOnSpanJoinsWire ==
    MergeLoopOver =>
        \A pt \in EntityPts(sch) :
            \A w \in Range(sch.wires) :
                OnWireSpan(pt, w) =>
                    /\ RootOf(parent, pt) = RootOf(parent, w[1])
                    /\ RootOf(parent, pt) = RootOf(parent, w[2])

C5_Witness ==
    /\ npc = "done"
    /\ \E pt \in EntityPts(sch) :
          \E w \in Range(sch.wires) :
             /\ OnWireSpan(pt, w) /\ pt # w[1] /\ pt # w[2]
             /\ RootOf(parent, pt) = RootOf(parent, w[2])

\* the identifiers kept at the points of a set
IdsAt(s, pts) == {id \in KeptIds(s) : Carriers(s, id) \cap pts # {}}

\* C6: whatever order the merge loop visits the points in, the finished
\* union-find splits the points exactly into the classes of the closure of the
\* union rules, and the net-membership sets are those of these classes.
C6_PartitionIndependentOfOrder ==
    NetDone =>
        /\ \A p, q \in all_pts :
              (RootOf(parent, p) = RootOf(parent, q)) <=> Linked(BuiltEdges(sch), p, q)
        /\ {nets[r] : r \in DOMAIN nets}
              = {IdsAt(sch, Component(BuiltEdges(sch), {p})) :
                    p \in UNION {Carriers(sch, id) : id \in KeptIds(sch)}}

\* a finished run with a net of three or more points and two or more nets
C6_Witness ==
    /\ NetDone
    /\ Cardinality(DOMAIN nets) >= 2
    /\ \E p \in all_pts : Cardinality(Component(BuiltEdges(sch), {p})) >= 3
    /\ \E p \in all_pts : parent[p] # p /\ parent[parent[p]] # parent[p]

\* no two items of the list are drawn at the same point
OnePerPoint(items) == \A i, j \in DOMAIN items : items[i].pt = items[j].pt => i = j

\* C3 and C4 restricted to schematics that draw at most one sheet pin and at
\* most one label per point: the statement of C3_NetMergeReported and of
\* C4_SameTextLabelsOneNet then holds.
NetReportsHoldWithOneItemPerPoint ==
    (OnePerPoint(sch.sheet_pins) /\ OnePerPoint(sch.labels)) =>
        (C3_NetMergeReported /\ C4_SameTextLabelsOneNet)

\* a shorted pair is reported: A0 and A1 sit on the two ends of one wire
NetMergeReportedWitness ==
    /\ NetDone
    /\ OnePerPoint(sch.sheet_pins)
    /\ NetMergeIssue(<<"Address Decoder:A0", "Address Decoder:A1">>) \in IssueSet

(***************************************************************************)
(* check_dangling_endpoints                                                *)
(***************************************************************************)
\* all_endpoints: both ends of every wire, in wire order
all_endpoints(wires) == Flatten([i \in 1..Len(wires) |-> <<wires[i][1], wires[i][2]>>])

\* endpoint_counts[pt]
endpoint_count(wires, pt) ==
    Cardinality({k \in 1..Len(all_endpoints(wires)) : all_endpoints(wires)[k] = pt})

\* the five marker sets without the labels
connected_markers_without_labels(d) ==
    d.pin_positions \cup d.junctions \cup d.no_connects \cup d.sheet_pins

\* connected.update(...) of the five marker sets
connected_markers(d) ==
    d.pin_positions \cup d.junctions \cup d.labels \cup d.no_connects \cup d.sheet_pins

\* the test of the T-junction loop for one wire and one endpoint
endpoint_on_wire_body(pt, w) ==
    IF Abs(Y1(w) - Y2(w)) < TOLERANCE
    THEN /\ Abs(pt[2] - snap(Y1(w))) < TOLERANCE
         /\ Min2(X1(w), X2(w)) - TOLERANCE <= pt[1]
         /\ pt[1] <= Max2(X1(w), X2(w)) + TOLERANCE
    ELSE IF Abs(X1(w) - X2(w)) < TOLERANCE
    THEN /\ Abs(pt[1] - snap(X1(w))) < TOLERANCE
         /\ Min2(Y1(w), Y2(w)) - TOLERANCE <= pt[2]
         /\ pt[2] <= Max2(Y1(w), Y2(w)) + TOLERANCE
    ELSE FALSE

\* the set `connected` when the final loop starts
connected_points(d) ==
    LET unique_endpoints == Range(all_endpoints(d.wires))
    IN connected_markers(d)
       \cup {pt \in unique_endpoints : endpoint_count(d.wires, pt) >= 2}
       \cup {pt \in unique_endpoints :
                \E i \in 1..Len(d.wires) : endpoint_on_wire_body(pt, d.wires[i])}

DanglingIssue(pt) == [kind |-> "Dangling", at |-> pt]

check_dangling_endpoints(d) ==
    LET connected == connected_points(d)
        sorted_endpoints == SortTuples(FirstOccurrences(all_endpoints(d.wires)))
        dangling == SelectSeq(sorted_endpoints,
                        LAMBDA pt : pt \notin connected
                                    /\ ~(\E cp \in connected : pts_close(pt, cp)))
    IN [k \in 1..Len(dangling) |-> DanglingIssue(dangling[k])]

RunDanglingEndpoints ==
    /\ ran = "none"
    /\ issues' = check_dangling_endpoints(data)
    /\ ran' = "dangling_endpoints"
    /\ UNCHANGED <<data, restOfGeom>>

MaxDanglingWires == 2

\* a horizontal wire, a vertical wire ending on its interior, a wire from its
\* right end, three diagonal wires and a zero-length wire
DanglingWireChoices ==
    { <<Pt(0, 0), Pt(5, 0)>>, <<Pt(3, 0), Pt(3, 4)>>, <<Pt(5, 0), Pt(5, 3)>>,
      <<Pt(0, 4), Pt(5, 3)>>, <<Pt(0, 4), Pt(3, 0)>>, <<Pt(5, 0), Pt(0, 4)>>,
      <<Pt(0, 4), Pt(0, 4)>> }

DanglingMarkerChoices == { {}, {Pt(0, 4)}, {Pt(5, 3)}, {Pt(0, 0)} }

InitDangling ==
    /\ data \in {[EmptyData EXCEPT !.wires = ws, !.pin_positions = pp, !.junctions = js,
                                   !.labels = ls, !.no_connects = nc, !.sheet_pins = sp] :
                    ws \in SeqsUpTo(DanglingWireChoices, MaxDanglingWires),
                    pp \in DanglingMarkerChoices, js \in DanglingMarkerChoices,
                    ls \in DanglingMarkerChoices, nc \in DanglingMarkerChoices,
                    sp \in DanglingMarkerChoices}
    /\ issues = <<>>
    /\ ran = "none"
    /\ RestOfGeomIdle

NextDangling == RunDanglingEndpoints

SpecDangling == InitDangling /\ [][NextDangling]_vars

DanglingDone == ran = "dangling_endpoints"

\* wire i's endpoint e (1 or 2) touches nothing: no end of another wire, no
\* marker of the five kinds, no interior point of another wire
EndTouchesNothing(i, e) ==
    LET pt == data.wires[i][e]
    IN /\ \A j \in 1..Len(data.wires) :
            j # i => /\ ~pts_close(pt, data.wires[j][1])
                     /\ ~pts_close(pt, data.wires[j][2])
                     /\ ~OnWireSpan(pt, data.wires[j])
       /\ \A m \in data.pin_positions \cup data.junctions \cup data.labels
                   \cup data.no_connects \cup data.sheet_pins : ~pts_close(pt, m)

\* C7: every wire endpoint that touches no other wire end, pin, junction, label,
\* no-connect marker, sheet pin or interior of another wire gets a Dangling
\* issue; a single isolated horizontal or vertical wire gets two.
C7_EveryUnconnectedEndReported ==
    DanglingDone =>
        \A i \in 1..Len(data.wires) : \A e \in {1, 2} :
            EndTouchesNothing(i, e) => DanglingIssue(data.wires[i][e]) \in Range(issues)

\* C8: no Dangling issue for a wire endpoint that coincides with a pin, a
\* junction, a label or a sheet pin, whatever the other wires are.
C8_NoIssueAtDeclaredPoint ==
    DanglingDone =>
        \A i \in 1..Len(data.wires) : \A e \in {1, 2} :
            (\E m \in data.pin_positions \cup data.junctions \cup data.labels
                      \cup data.sheet_pins : pts_close(data.wires[i][e], m))
                => DanglingIssue(data.wires[i][e]) \notin Range(issues)

\* a diagonal wire whose one end sits on a label and nothing else, the other
\* end being reported
C8_Witness ==
    /\ DanglingDone
    /\ data.wires = << <<Pt(0, 4), Pt(5, 3)>> >>
    /\ data.labels = {Pt(0, 4)}
    /\ data.pin_positions = {} /\ data.junctions = {} /\ data.sheet_pins = {}
    /\ data.no_connects = {}
    /\ issues = <<DanglingIssue(Pt(5, 3))>>

(***************************************************************************)
(* check_wire_through_pins                                                 *)
(* data.pins is the dict position -> (ref, pin_num, lib_name), kept as the *)
(* sequence of its items in insertion order; a reference is the sequence   *)
(* of its characters.                                                      *)
(***************************************************************************)
PinItem(pt, ref, pin_num, lib_name) ==
    [pt |-> pt, ref |-> ref, pin_num |-> pin_num, lib_name |-> lib_name]

\* ref.startswith("#")
startswith_hash(ref) == Len(ref) >= 1 /\ ref[1] = "#"

\* a power test that is never true
never_power(ref) == FALSE

is_power_ref(ref) == startswith_hash(ref)

\* wire_endpoints
wire_endpoints(wires) == UNION {{wires[i][1], wires[i][2]} : i \in 1..Len(wires)}

\* the two `continue` tests on wire endpoints at the pin
pin_at_wire_endpoint(pin, wires) ==
    \/ pin.pt \in wire_endpoints(wires)
    \/ \E ep \in wire_endpoints(wires) : pts_close(pin.pt, ep)

\* the interior test of the inner loop
pin_in_wire_interior(pin, w) ==
    IF Abs(Y1(w) - Y2(w)) < TOLERANCE
    THEN /\ Abs(pin.pt[2] - Y1(w)) < TOLERANCE
         /\ Min2(X1(w), X2(w)) + TOLERANCE < pin.pt[1]
         /\ pin.pt[1] < Max2(X1(w), X2(w)) - TOLERANCE
    ELSE IF Abs(X1(w) - X2(w)) < TOLERANCE
    THEN /\ Abs(pin.pt[1] - X1(w)) < TOLERANCE
         /\ Min2(Y1(w), Y2(w)) + TOLERANCE < pin.pt[2]
         /\ pin.pt[2] < Max2(Y1(w), Y2(w)) - TOLERANCE
    ELSE FALSE

ThroughPinIssue(w_idx, w, pin) ==
    [kind |-> IF Abs(Y1(w) - Y2(w)) < TOLERANCE THEN "H" ELSE "V",
     w_idx |-> w_idx, wire |-> w, ref |-> pin.ref, pin_num |-> pin.pin_num, at |-> pin.pt]

\* the inner loop over the wires for one pin; w_idx counts from 0
PinIssues(pin, wires) ==
    LET hits == SelectSeq([i \in 1..Len(wires) |-> i],
                          LAMBDA i : pin_in_wire_interior(pin, wires[i]))
    IN [k \in 1..Len(hits) |-> ThroughPinIssue(hits[k] - 1, wires[hits[k]], pin)]

check_wire_through_pins(d) ==
    Flatten([k \in 1..Len(d.pins) |->
                IF is_power_ref(d.pins[k].ref) THEN <<>>
                ELSE IF pin_at_wire_endpoint(d.pins[k], d.wires) THEN <<>>
                ELSE PinIssues(d.pins[k], d.wires)])

RunWireThroughPins ==
    /\ ran = "none"
    /\ issues' = check_wire_through_pins(data)
    /\ ran' = "wire_through_pins"
    /\ UNCHANGED <<data, restOfGeom>>

MaxThroughWires == 2

RefU1 == <<"U", "1">>
RefU2 == <<"U", "2">>
RefPWR == <<"#", "P", "W", "R", "0", "1">>

\* a horizontal wire through (3,0), a vertical wire through (3,2) that ends at
\* (3,0), a wire along the horizontal one's right half, a diagonal wire across
\* (3,2)
ThroughWireChoices ==
    { <<Pt(0, 0), Pt(5, 0)>>, <<Pt(5, 0), Pt(0, 0)>>, <<Pt(3, 0), Pt(3, 4)>>,
      <<Pt(3, 4), Pt(3, -1)>>, <<Pt(3, 0), Pt(5, 0)>>, <<Pt(1, 1), Pt(5, 3)>> }

ThroughPinPoints == <<Pt(3, 0), Pt(0, 0), Pt(3, 2)>>

\* the pin dicts: each of the points carries no pin, a pin of U1 or a pin of
\* the power symbol #PWR01
ThroughPinDicts ==
    LET options(k) == { <<>>, <<PinItem(ThroughPinPoints[k], RefU1, "1", "74LVC1G04")>>,
                        <<PinItem(ThroughPinPoints[k], RefPWR, "1", "VCC")>> }
    IN {a \o b \o c : a \in options(1), b \in options(2), c \in options(3)}

InitThroughPins ==
    /\ data \in {[EmptyData EXCEPT !.wires = ws, !.pins = ps,
                                   !.pin_positions = {ps[k].pt : k \in 1..Len(ps)}] :
                    ws \in SeqsUpTo(ThroughWireChoices, MaxThroughWires),
                    ps \in ThroughPinDicts}
    /\ issues = <<>>
    /\ ran = "none"
    /\ RestOfGeomIdle

NextThroughPins == RunWireThroughPins

SpecThroughPins == InitThroughPins /\ [][NextThroughPins]_vars

ThroughPinsDone == ran = "wire_through_pins"

\* the pin lies on the wire's line, strictly between its two ends
StrictlyInsideSpan(pt, w) ==
    \/ /\ Y1(w) = Y2(w) /\ pt[2] = Y1(w)
       /\ Min2(X1(w), X2(w)) < pt[1] /\ pt[1] < Max2(X1(w), X2(w))
    \/ /\ X1(w) = X2(w) /\ pt[1] = X1(w)
       /\ Min2(Y1(w), Y2(w)) < pt[2] /\ pt[2] < Max2(Y1(w), Y2(w))

\* some issue names wire i (1-based) and the pin
PinPairReported(i, pin) ==
    \E k \in 1..Len(issues) :
        issues[k].w_idx = i - 1 /\ issues[k].at = pin.pt /\ issues[k].ref = pin.ref

NonPower(pin) == pin.ref[1] # "#"

\* C9 as stated: every (wire, pin) pair with a non-power pin strictly inside the
\* wire's span is reported, also when another wire ends at the pin; a pin only
\* at an endpoint of the wire is not reported for it; power pins never are.
C9_EveryInteriorPinReported ==
    ThroughPinsDone =>
        \A i \in 1..Len(data.wires) : \A k \in 1..Len(data.pins) :
            LET w == data.wires[i]
                pin == data.pins[k]
            IN /\ (NonPower(pin) /\ StrictlyInsideSpan(pin.pt, w)) => PinPairReported(i, pin)
               /\ pin.pt \in {w[1], w[2]} => ~PinPairReported(i, pin)
               /\ ~NonPower(pin) => ~PinPairReported(i, pin)

\* C9 amended: the pair is reported when, besides, no wire of the data ends at
\* the pin; a pin at which any wire ends is reported for no wire.
C9_InteriorPinReportedUnlessWireEndsThere ==
    ThroughPinsDone =>
        \A i \in 1..Len(data.wires) : \A k \in 1..Len(data.pins) :
            LET w == data.wires[i]
                pin == data.pins[k]
                ends_there == \E j \in 1..Len(data.wires) : pin.pt \in {data.wires[j][1], data.wires[j][2]}
            IN /\ (NonPower(pin) /\ StrictlyInsideSpan(pin.pt, w) /\ ~ends_there)
                    => PinPairReported(i, pin)
               /\ ends_there => ~PinPairReported(i, pin)
               /\ ~NonPower(pin) => ~PinPairReported(i, pin)

\* the vertical wire through the pin at (3,2) is reported; the horizontal wire
\* through the pin at (3,0), where the vertical wire ends, is not
C9_Witness ==
    /\ ThroughPinsDone
    /\ data.wires = << <<Pt(0, 0), Pt(5, 0)>>, <<Pt(3, 0), Pt(3, 4)>> >>
    /\ data.pins = << PinItem(Pt(3, 0), RefU1, "1", "74LVC1G04"),
                      PinItem(Pt(3, 2), RefU1, "1", "74LVC1G04") >>
    /\ issues = << ThroughPinIssue(1, <<Pt(3, 0), Pt(3, 4)>>,
                                   PinItem(Pt(3, 2), RefU1, "1", "74LVC1G04")) >>

(***************************************************************************)
(* check_wire_through_body                                                 *)
(* A bounding box is <<min_x, min_y, max_x, max_y>>; a component is        *)
(* [ref, lib_name, cx, cy, angle]; None is <<>>.                           *)
(***************************************************************************)
None == <<>>

Comp(ref, lib_name, c, angle) ==
    [ref |-> ref, lib_name |-> lib_name, cx |-> c[1], cy |-> c[2], angle |-> angle]

\* a table that takes a half turn for a quarter turn
CosSinHalfTurnAsQuarter(angle) ==
    CASE angle = 0 -> <<1, 0>>
      [] angle = 90 -> <<0, 1>>
      [] angle = 180 -> <<0, 1>>
      [] angle = 270 -> <<0, -1>>

\* <<round(cos(radians(angle)), 10), round(sin(radians(angle)), 10)>> for the
\* four right angles
CosSin(angle) ==
    CASE angle = 0 -> <<1, 0>>
      [] angle = 90 -> <<0, 1>>
      [] angle = 180 -> <<-1, 0>>
      [] angle = 270 -> <<0, -1>>

SetMin(S) == CHOOSE v \in S : \A u \in S : v <= u
SetMax(S) == CHOOSE v \in S : \A u \in S : v >= u

lib_bbox_to_schematic(lib_bbox, cx, cy, angle) ==
    LET corners == { <<lib_bbox[1], lib_bbox[2]>>, <<lib_bbox[3], lib_bbox[2]>>,
                     <<lib_bbox[3], lib_bbox[4]>>, <<lib_bbox[1], lib_bbox[4]>> }
        cos_a == CosSin(angle)[1]
        sin_a == CosSin(angle)[2]
        sx(l) == cx + snap(cos_a * l[1] + sin_a * (-l[2]))
        sy(l) == cy + snap((-sin_a) * l[1] + cos_a * (-l[2]))
    IN << SetMin({sx(l) : l \in corners}), SetMin({sy(l) : l \in corners}),
          SetMax({sx(l) : l \in corners}), SetMax({sy(l) : l \in corners}) >>

\* an intersection test that takes a wire on the box's edge as inside
wire_segment_touches_bbox(w, bbox) ==
    IF Abs(Y1(w) - Y2(w)) < TOLERANCE
    THEN /\ ~(Y1(w) < bbox[2] \/ Y1(w) > bbox[4])
         /\ Min2(X1(w), X2(w)) + TOLERANCE < bbox[3]
         /\ Max2(X1(w), X2(w)) - TOLERANCE > bbox[1]
    ELSE IF Abs(X1(w) - X2(w)) < TOLERANCE
    THEN /\ ~(X1(w) < bbox[1] \/ X1(w) > bbox[3])
         /\ Min2(Y1(w), Y2(w)) + TOLERANCE < bbox[4]
         /\ Max2(Y1(w), Y2(w)) - TOLERANCE > bbox[2]
    ELSE FALSE

wire_segment_intersects_bbox(w, bbox) ==
    IF Abs(Y1(w) - Y2(w)) < TOLERANCE
    THEN IF Y1(w) <= bbox[2] + TOLERANCE \/ Y1(w) >= bbox[4] - TOLERANCE
         THEN FALSE
         ELSE /\ Min2(X1(w), X2(w)) + TOLERANCE < bbox[3]
              /\ Max2(X1(w), X2(w)) - TOLERANCE > bbox[1]
    ELSE IF Abs(X1(w) - X2(w)) < TOLERANCE
    THEN IF X1(w) <= bbox[1] + TOLERANCE \/ X1(w) >= bbox[3] - TOLERANCE
         THEN FALSE
         ELSE /\ Min2(Y1(w), Y2(w)) + TOLERANCE < bbox[4]
              /\ Max2(Y1(w), Y2(w)) - TOLERANCE > bbox[2]
    ELSE FALSE

\* ref_pins.get(ref, set())
ref_pins(d, ref) == {d.pins[k].pt : k \in {j \in 1..Len(d.pins) : d.pins[j].ref = ref}}

\* comp_body_bboxes[c_idx]
comp_body_bbox(d, comp) ==
    IF startswith_hash(comp.ref) THEN None
    ELSE IF comp.lib_name \in DOMAIN d.lib_body_bboxes
    THEN lib_bbox_to_schematic(d.lib_body_bboxes[comp.lib_name], comp.cx, comp.cy, comp.angle)
    ELSE None

\* connects = any(pts_close(ep, pp) for ep in (ep1, ep2) for pp in comp_pins)
wire_connects(d, w, comp) ==
    \E ep \in {w[1], w[2]} : \E pp \in ref_pins(d, comp.ref) : pts_close(ep, pp)

ThroughBodyIssue(w_idx, w, comp, bbox) ==
    [w_idx |-> w_idx, wire |-> w, ref |-> comp.ref, lib_name |-> comp.lib_name, bbox |-> bbox]

\* the body of the inner loop for wire i (1-based) and one component
WireCompIssues(d, i, comp) ==
    LET bbox == comp_body_bbox(d, comp)
    IN IF bbox = None THEN <<>>
       ELSE IF ~wire_segment_intersects_bbox(d.wires[i], bbox) THEN <<>>
       ELSE IF wire_connects(d, d.wires[i], comp) THEN <<>>
       ELSE <<ThroughBodyIssue(i - 1, d.wires[i], comp, bbox)>>

check_wire_through_body(d) ==
    Flatten([i \in 1..Len(d.wires) |->
                Flatten([c \in 1..Len(d.components) |->
                            WireCompIssues(d, i, d.components[c])])])

RunWireThroughBody ==
    /\ ran = "none"
    /\ issues' = check_wire_through_body(data)
    /\ ran' = "wire_through_body"
    /\ UNCHANGED <<data, restOfGeom>>

MaxBodyWires == 2
MaxBodyComps == 2

\* library body boxes (library space, Y up): a box that is not symmetric, so
\* that the four rotations give four different boxes, and the VCC symbol's
BodyLibs ==
    ("BOX" :> <<-1 * MM, -1 * MM, 1 * MM, 2 * MM>>) @@ ("VCC" :> <<-1 * MM, -1 * MM, 1 * MM, 1 * MM>>)

\* U1 with the box body in the four rotations, a power symbol with a body, and
\* U2 whose symbol has no body graphics, all centred at (3,3)
BodyCompChoices ==
    {Comp(RefU1, "BOX", Pt(3, 3), a) : a \in {0, 90, 180, 270}}
        \cup {Comp(RefPWR, "VCC", Pt(3, 3), 0), Comp(RefU2, "PAD", Pt(3, 3), 0)}

\* wires across the box, along its edges, stopping at an edge, ending at a pin
\* beyond it, of zero length inside it, and diagonally across it
BodyWireChoices ==
    { <<Pt(0, 3), Pt(6, 3)>>, <<Pt(0, 2), Pt(6, 2)>>, <<Pt(0, 3), Pt(2, 3)>>,
      <<Pt(0, 3), Pt(5, 3)>>, <<Pt(3, 0), Pt(3, 6)>>, <<Pt(4, 6), Pt(4, 0)>>,
      <<Pt(3, 3), Pt(3, 3)>>, <<Pt(0, 0), Pt(6, 5)>> }

BodyPinDicts ==
    { <<>>, <<PinItem(Pt(5, 3), RefU1, "4", "BOX")>>, <<PinItem(Pt(5, 3), RefU2, "1", "PAD")>>,
      <<PinItem(Pt(0, 3), RefU1, "2", "BOX")>> }

DistinctRefs(cs) == \A a, b \in 1..Len(cs) : a # b => cs[a].ref # cs[b].ref

InitBody ==
    /\ data \in {[EmptyData EXCEPT !.wires = ws, !.components = cs, !.pins = ps,
                                   !.pin_positions = {ps[k].pt : k \in 1..Len(ps)},
                                   !.lib_body_bboxes = BodyLibs] :
                    ws \in SeqsUpTo(BodyWireChoices, MaxBodyWires),
                    cs \in {q \in SeqsUpTo(BodyCompChoices, MaxBodyComps) : DistinctRefs(q)},
                    ps \in BodyPinDicts}
    /\ issues = <<>>
    /\ ran = "none"
    /\ RestOfGeomIdle

NextBody == RunWireThroughBody

SpecBody == InitBody /\ [][NextBody]_vars

ThroughBodyDone == ran = "wire_through_body"

\* the component's body-only box in the schematic, None when its symbol has no
\* body graphics
BodyBoxOf(comp) ==
    IF comp.lib_name \in DOMAIN data.lib_body_bboxes
    THEN lib_bbox_to_schematic(data.lib_body_bboxes[comp.lib_name], comp.cx, comp.cy, comp.angle)
    ELSE None

\* some issue names wire i (1-based) and the component
BodyPairReported(i, comp) ==
    \E k \in 1..Len(issues) :
        /\ issues[k].w_idx = i - 1
        /\ issues[k].ref = comp.ref /\ issues[k].lib_name = comp.lib_name
        /\ issues[k].bbox = BodyBoxOf(comp)

EndsAtOwnPin(w, comp) ==
    \E k \in 1..Len(data.pins) :
        data.pins[k].ref = comp.ref /\ (pts_close(w[1], data.pins[k].pt) \/ pts_close(w[2], data.pins[k].pt))

\* length of the common part of [a_min, a_max] and [b_min, b_max]
OverlapLength(a_min, a_max, b_min, b_max) == Min2(a_max, b_max) - Max2(a_min, b_min)

\* strictly inside the box across the wire, more than the tolerance of common
\* length along it
RunsThroughBox(w, b) ==
    \/ /\ Y1(w) = Y2(w)
       /\ b[2] < Y1(w) /\ Y1(w) < b[4]
       /\ OverlapLength(Min2(X1(w), X2(w)), Max2(X1(w), X2(w)), b[1], b[3]) > TOLERANCE
    \/ /\ X1(w) = X2(w)
       /\ b[1] < X1(w) /\ X1(w) < b[3]
       /\ OverlapLength(Min2(Y1(w), Y2(w)), Max2(Y1(w), Y2(w)), b[2], b[4]) > TOLERANCE

\* strictly inside the box across the wire, and along it the span begins before
\* the box's far edge and ends after its near edge; a wire of zero length is
\* taken as horizontal
ReachesIntoBox(w, b) ==
    \/ /\ Y1(w) = Y2(w)
       /\ b[2] < Y1(w) /\ Y1(w) < b[4]
       /\ Min2(X1(w), X2(w)) < b[3] /\ Max2(X1(w), X2(w)) > b[1]
    \/ /\ X1(w) = X2(w) /\ Y1(w) # Y2(w)
       /\ b[1] < X1(w) /\ X1(w) < b[3]
       /\ Min2(Y1(w), Y2(w)) < b[4] /\ Max2(Y1(w), Y2(w)) > b[2]

endpoint_inside_wire(pt, w) ==
    IF Abs(Y1(w) - Y2(w)) < TOLERANCE
    THEN /\ Abs(pt[2] - snap(Y1(w))) < TOLERANCE
         /\ Min2(X1(w), X2(w)) + TOLERANCE < pt[1]
         /\ pt[1] < Max2(X1(w), X2(w)) - TOLERANCE
    ELSE IF Abs(X1(w) - X2(w)) < TOLERANCE
    THEN /\ Abs(pt[1] - snap(X1(w))) < TOLERANCE
         /\ Min2(Y1(w), Y2(w)) + TOLERANCE < pt[2]
         /\ pt[2] < Max2(Y1(w), Y2(w)) - TOLERANCE
    ELSE FALSE

\* key = (pt, "H", y, xmin, xmax) or (pt, "V", x, ymin, ymax)
tjunction_key(pt, w) ==
    IF Abs(Y1(w) - Y2(w)) < TOLERANCE
    THEN <<pt, "H", snap(Y1(w)), Min2(X1(w), X2(w)), Max2(X1(w), X2(w))>>
    ELSE <<pt, "V", snap(X1(w)), Min2(Y1(w), Y2(w)), Max2(Y1(w), Y2(w))>>

TJunctionIssue(pt, w) ==
    [kind |-> "T-junction", at |-> pt,
     dir |-> IF Abs(Y1(w) - Y2(w)) < TOLERANCE THEN "H" ELSE "V", wire |-> w]

\* a step of the inner loop that does not look at the junctions
tjunction_step_ignoring_dots(acc, pt, w, junctions) ==
    IF endpoint_inside_wire(pt, w) /\ tjunction_key(pt, w) \notin acc.seen
    THEN [issues |-> Append(acc.issues, TJunctionIssue(pt, w)),
          seen |-> acc.seen \cup {tjunction_key(pt, w)}]
    ELSE acc

\* one pass of the inner loop body; acc is [issues, seen]
tjunction_step(acc, pt, w, junctions) ==
    IF /\ endpoint_inside_wire(pt, w)
       /\ tjunction_key(pt, w) \notin acc.seen
       /\ pt \notin junctions
    THEN [issues |-> Append(acc.issues, TJunctionIssue(pt, w)),
          seen |-> acc.seen \cup {tjunction_key(pt, w)}]
    ELSE acc

\* the inner loop over the wires, from wire i on
RECURSIVE tjunction_wires(_, _, _, _, _)
tjunction_wires(acc, pt, wires, i, junctions) ==
    IF i > Len(wires) THEN acc
    ELSE tjunction_wires(tjunction_step(acc, pt, wires[i], junctions), pt, wires, i + 1, junctions)

\* the outer loop over the endpoints, from the k-th of the order on
RECURSIVE tjunction_points(_, _, _, _, _)
tjunction_points(acc, order, k, wires, junctions) ==
    IF k > Len(order) THEN acc
    ELSE tjunction_points(tjunction_wires(acc, order[k], wires, 1, junctions),
                          order, k + 1, wires, junctions)

check_tjunctions_without_dots(d, order) ==
    tjunction_points([issues |-> <<>>, seen |-> {}], order, 1, d.wires, d.junctions).issues

\* the orders in which a set can be iterated
RECURSIVE Orders(_)
Orders(S) == IF S = {} THEN {<<>>} ELSE UNION {{<<x>> \o p : p \in Orders(S \ {x})} : x \in S}

(***************************************************************************)
(* The other checks run_all_checks calls                                   *)
(***************************************************************************)
DiagonalIssue(i, w) == [kind |-> "diagonal", w_idx |-> i, wire |-> w]

check_diagonal_wires(d) ==
    LET hits == SelectSeq([i \in 1..Len(d.wires) |-> i],
                    LAMBDA i : /\ Abs(X1(d.wires[i]) - X2(d.wires[i])) > TOLERANCE
                               /\ Abs(Y1(d.wires[i]) - Y2(d.wires[i])) > TOLERANCE)
    IN [k \in 1..Len(hits) |-> DiagonalIssue(hits[k] - 1, d.wires[hits[k]])]

\* lib.startswith("Conn"), over the library names the inputs use
startswith_conn(lib_name) == lib_name \in {"Conn_01x08"}

\* _get_schematic_bbox: None when the library has no box for the symbol
get_schematic_bbox(comp, lib_bboxes) ==
    IF comp.lib_name \in DOMAIN lib_bboxes
    THEN lib_bbox_to_schematic(lib_bboxes[comp.lib_name], comp.cx, comp.cy, comp.angle)
    ELSE None

\* an overlap test that counts boxes sharing an edge
bboxes_touch_or_overlap(a, b) ==
    /\ a[1] < b[3] + TOLERANCE /\ a[3] > b[1] - TOLERANCE
    /\ a[2] < b[4] + TOLERANCE /\ a[4] > b[2] - TOLERANCE

bboxes_overlap(a, b) ==
    /\ a[1] < b[3] - TOLERANCE /\ a[3] > b[1] + TOLERANCE
    /\ a[2] < b[4] - TOLERANCE /\ a[4] > b[2] + TOLERANCE

\* MIN_DIST = 1.5
MIN_DIST == 15000

\* math.sqrt((ax - bx) ** 2 + (ay - by) ** 2) < MIN_DIST, compared as squares in
\* units of 0.01 mm (the centres are snapped to 0.01 mm)
centers_closer_than_min_dist(a, b) ==
    LET dx == (a.cx - b.cx) \div SNAP_STEP
        dy == (a.cy - b.cy) \div SNAP_STEP
    IN dx * dx + dy * dy < (MIN_DIST \div SNAP_STEP) * (MIN_DIST \div SNAP_STEP)

BboxOverlapIssue(a, bbox_a, b, bbox_b) ==
    [kind |-> "bbox overlaps", ref_a |-> a.ref, lib_a |-> a.lib_name, bbox_a |-> bbox_a,
     ref_b |-> b.ref, lib_b |-> b.lib_name, bbox_b |-> bbox_b]

CenterOverlapIssue(a, b) ==
    [kind |-> "centers overlap", ref_a |-> a.ref, lib_a |-> a.lib_name, bbox_a |-> <<a.cx, a.cy>>,
     ref_b |-> b.ref, lib_b |-> b.lib_name, bbox_b |-> <<b.cx, b.cy>>]

\* the list non_power
non_power(comps) ==
    SelectSeq(comps, LAMBDA c : ~startswith_hash(c.ref) /\ ~startswith_conn(c.lib_name))

\* the body of the inner loop for non_power[i] and non_power[j]
CompPairIssues(a, b, lib_bboxes) ==
    LET bbox_a == get_schematic_bbox(a, lib_bboxes)
        bbox_b == get_schematic_bbox(b, lib_bboxes)
    IN IF bbox_a # None /\ bbox_b # None
       THEN IF bboxes_overlap(bbox_a, bbox_b)
            THEN <<BboxOverlapIssue(a, bbox_a, b, bbox_b)>> ELSE <<>>
       ELSE IF centers_closer_than_min_dist(a, b) THEN <<CenterOverlapIssue(a, b)>> ELSE <<>>

check_component_overlap(d) ==
    LET np == non_power(d.components)
    IN Flatten([i \in 1..Len(np) |->
                   Flatten([k \in 1..(Len(np) - i) |->
                               CompPairIssues(np[i], np[i + k], d.lib_bboxes)])])

(***************************************************************************)
(* check_content_on_sheet_blocks; a sheet block is [name, x, y, w, h]      *)
(***************************************************************************)
SheetBlock(name, origin, w, h) ==
    [name |-> name, x |-> origin[1], y |-> origin[2], w |-> w, h |-> h]

inside_block(pt, blk) ==
    /\ blk.x + TOLERANCE < pt[1] /\ pt[1] < blk.x + blk.w - TOLERANCE
    /\ blk.y + TOLERANCE < pt[2] /\ pt[2] < blk.y + blk.h - TOLERANCE

bbox_intrudes_block(comp_bbox, blk) ==
    bboxes_overlap(comp_bbox, <<blk.x, blk.y, blk.x + blk.w, blk.y + blk.h>>)

CompOnBlockIssue(comp, comp_bbox, blk) ==
    [kind |-> "component on sheet block", ref |-> comp.ref, lib_name |-> comp.lib_name,
     bbox |-> comp_bbox, block |-> blk]

WireOnBlockIssue(i, w, blk) ==
    [kind |-> "wire enters sheet block", w_idx |-> i, wire |-> w, block |-> blk]

\* the loop over the sheet blocks for one component
CompBlockIssues(comp, d) ==
    IF startswith_hash(comp.ref) THEN <<>>
    ELSE LET comp_bbox == get_schematic_bbox(comp, d.lib_bboxes)
             hit(blk) == IF comp_bbox # None THEN bbox_intrudes_block(comp_bbox, blk)
                         ELSE inside_block(<<comp.cx, comp.cy>>, blk)
             hits == SelectSeq(d.sheet_blocks, hit)
         IN [k \in 1..Len(hits) |-> CompOnBlockIssue(comp, comp_bbox, hits[k])]

\* p1_in or p2_in
wire_enters_block(w, blk) == inside_block(w[1], blk) \/ inside_block(w[2], blk)

\* the loop over the sheet blocks for wire i (1-based)
WireBlockIssues(i, d) ==
    LET hits == SelectSeq(d.sheet_blocks, LAMBDA blk : wire_enters_block(d.wires[i], blk))
    IN [k \in 1..Len(hits) |-> WireOnBlockIssue(i - 1, d.wires[i], hits[k])]

check_content_on_sheet_blocks(d) ==
    IF d.sheet_blocks = <<>> THEN <<>>
    ELSE Flatten([c \in 1..Len(d.components) |-> CompBlockIssues(d.components[c], d)])
         \o Flatten([i \in 1..Len(d.wires) |-> WireBlockIssues(i, d)])

(***************************************************************************)
(* check_page_boundary                                                     *)
(***************************************************************************)
\* margin = 12.5 and border_tol = 0.5
PAGE_MARGIN == 125000
BORDER_TOL == 5000

page_min(d) == PAGE_MARGIN - BORDER_TOL
page_max_x(d) == d.page_size[1] - PAGE_MARGIN + BORDER_TOL
page_max_y(d) == d.page_size[2] - PAGE_MARGIN + BORDER_TOL

outside_page(pt, d) ==
    \/ pt[1] < page_min(d) \/ pt[1] > page_max_x(d)
    \/ pt[2] < page_min(d) \/ pt[2] > page_max_y(d)

WireOutsideIssue(i, w) == [kind |-> "wire outside page border", w_idx |-> i, wire |-> w]

CompOutsideIssue(comp, bbox) ==
    [kind |-> "component outside page border", ref |-> comp.ref, lib_name |-> comp.lib_name,
     bbox |-> bbox]

\* the body of the loop over the components
CompPageIssues(comp, d) ==
    IF startswith_hash(comp.ref) THEN <<>>
    ELSE IF comp.lib_name \in DOMAIN d.lib_bboxes
    THEN LET b == lib_bbox_to_schematic(d.lib_bboxes[comp.lib_name], comp.cx, comp.cy, comp.angle)
         IN IF \/ b[1] < page_min(d) \/ b[3] > page_max_x(d)
               \/ b[2] < page_min(d) \/ b[4] > page_max_y(d)
            THEN <<CompOutsideIssue(comp, b)>> ELSE <<>>
    ELSE IF outside_page(<<comp.cx, comp.cy>>, d)
    THEN <<CompOutsideIssue(comp, <<comp.cx, comp.cy>>)>> ELSE <<>>

check_page_boundary(d) ==
    LET hits == SelectSeq([i \in 1..Len(d.wires) |-> i],
                    LAMBDA i : outside_page(d.wires[i][1], d) \/ outside_page(d.wires[i][2], d))
    IN [k \in 1..Len(hits) |-> WireOutsideIssue(hits[k] - 1, d.wires[hits[k]])]
       \o Flatten([c \in 1..Len(d.components) |-> CompPageIssues(d.components[c], d)])

(***************************************************************************)
(* check_wire_overlaps_pin_stub                                            *)
(* data.pin_stubs is the dict position -> (sdx, sdy, slen), kept as the    *)
(* sequence of its items; sdx and sdy are -1, 0 or 1 for the four right    *)
(* angles.                                                                 *)
(***************************************************************************)
StubItem(pt, sdx, sdy, slen) == [pt |-> pt, sdx |-> sdx, sdy |-> sdy, slen |-> slen]

\* pin_stubs[(px, py)], None when the key is absent
stub_at(d, pt) ==
    IF \E k \in 1..Len(d.pin_stubs) : d.pin_stubs[k].pt = pt
    THEN d.pin_stubs[CHOOSE k \in 1..Len(d.pin_stubs) : d.pin_stubs[k].pt = pt]
    ELSE None

\* cos_angle = dot / wire_len > 0.96 for the wire from the pin to `other`,
\* compared as squares (0.96^2 = 576/625) in units of 0.01 mm
wire_along_stub(pt, other, stub) ==
    LET wx == (other[1] - pt[1]) \div SNAP_STEP
        wy == (other[2] - pt[2]) \div SNAP_STEP
        dot == wx * stub.sdx + wy * stub.sdy
    IN /\ ~(wx = 0 /\ wy = 0)
       /\ dot > 0
       /\ 625 * dot * dot > 576 * (wx * wx + wy * wy)

\* the wire ends at the pin and leaves it along the stub
wire_doubles_stub(w, pt, stub) ==
    IF pts_close(w[1], pt) THEN wire_along_stub(pt, w[2], stub)
    ELSE IF pts_close(w[2], pt) THEN wire_along_stub(pt, w[1], stub)
    ELSE FALSE

StubIssue(i, pin) ==
    [kind |-> "wire overlaps stub", w_idx |-> i, ref |-> pin.ref, pin_num |-> pin.pin_num,
     at |-> pin.pt]

\* the body of the loop over the pins: the first wire along the stub is reported
PinStubIssues(pin, d) ==
    IF startswith_hash(pin.ref) \/ startswith_conn(pin.lib_name) THEN <<>>
    ELSE IF stub_at(d, pin.pt) = None THEN <<>>
    ELSE IF stub_at(d, pin.pt).sdx = 0 /\ stub_at(d, pin.pt).sdy = 0 THEN <<>>
    ELSE LET hits == SelectSeq([i \in 1..Len(d.wires) |-> i],
                        LAMBDA i : wire_doubles_stub(d.wires[i], pin.pt, stub_at(d, pin.pt)))
         IN IF hits = <<>> THEN <<>> ELSE <<StubIssue(hits[1] - 1, pin)>>

check_wire_overlaps_pin_stub(d) ==
    IF d.pin_stubs = <<>> THEN <<>>
    ELSE Flatten([k \in 1..Len(d.pins) |-> PinStubIssues(d.pins[k], d)])

(***************************************************************************)
(* check_power_orientation                                                 *)
(***************************************************************************)
PowerOrientIssue(comp) ==
    [kind |-> "power orientation", ref |-> comp.ref, lib_name |-> comp.lib_name,
     angle |-> comp.angle]

\* abs(angle) > TOLERANCE, the angle being in degrees
check_power_orientation(d) ==
    LET bad == SelectSeq(d.components,
                   LAMBDA c : /\ c.lib_name \in {"VCC", "GND"}
                              /\ Abs(c.angle) * MM > TOLERANCE)
    IN [k \in 1..Len(bad) |-> PowerOrientIssue(bad[k])]

(***************************************************************************)
(* run_all_checks: the checks in the order of the calls, each with the     *)
(* category name and the is_error flag of its results.append               *)
(***************************************************************************)
CheckEntry(name, category, is_error) ==
    [name |-> name, category |-> category, is_error |-> is_error]

\* the table with every check classified as an error
CHECKS_ALL_ERRORS ==
    << CheckEntry("check_diagonal_wires", "Diagonal Wires", TRUE),
       CheckEntry("check_wire_overlaps", "Wire Overlaps (NET MERGE)", TRUE),
       CheckEntry("check_dangling_endpoints", "Dangling Endpoints", TRUE),
       CheckEntry("check_wire_through_pins", "Wire Through Pin", TRUE),
       CheckEntry("check_wire_through_body", "Wire Through Body", TRUE),
       CheckEntry("check_tjunctions_without_dots", "T-junction (no dot)", TRUE),
       CheckEntry("check_wire_overlaps_pin_stub", "Wire Overlaps Pin Stub", TRUE),
       CheckEntry("check_component_overlap", "Component Overlap", TRUE),
       CheckEntry("check_content_on_sheet_blocks", "Content on Sheet Block", TRUE),
       CheckEntry("check_page_boundary", "Outside Page Border", TRUE),
       CheckEntry("check_power_orientation", "Power Orientation", TRUE) >>

CHECKS ==
    << CheckEntry("check_diagonal_wires", "Diagonal Wires", TRUE),
       CheckEntry("check_wire_overlaps", "Wire Overlaps (NET MERGE)", TRUE),
       CheckEntry("check_dangling_endpoints", "Dangling Endpoints", TRUE),
       CheckEntry("check_wire_through_pins", "Wire Through Pin", TRUE),
       CheckEntry("check_wire_through_body", "Wire Through Body", TRUE),
       CheckEntry("check_tjunctions_without_dots", "T-junction (no dot)", FALSE),
       CheckEntry("check_wire_overlaps_pin_stub", "Wire Overlaps Pin Stub", TRUE),
       CheckEntry("check_component_overlap", "Component Overlap", TRUE),
       CheckEntry("check_content_on_sheet_blocks", "Content on Sheet Block", TRUE),
       CheckEntry("check_page_boundary", "Outside Page Border", TRUE),
       CheckEntry("check_power_orientation", "Power Orientation", TRUE) >>

\* the list the named check returns on d
call_check(name, d, order) ==
    CASE name = "check_diagonal_wires" -> check_diagonal_wires(d)
      [] name = "check_wire_overlaps" -> check_wire_overlaps(d)
      [] name = "check_dangling_endpoints" -> check_dangling_endpoints(d)
      [] name = "check_wire_through_pins" -> check_wire_through_pins(d)
      [] name = "check_wire_through_body" -> check_wire_through_body(d)
      [] name = "check_tjunctions_without_dots" -> check_tjunctions_without_dots(d, order)
      [] name = "check_wire_overlaps_pin_stub" -> check_wire_overlaps_pin_stub(d)
      [] name = "check_component_overlap" -> check_component_overlap(d)
      [] name = "check_content_on_sheet_blocks" -> check_content_on_sheet_blocks(d)
      [] name = "check_page_boundary" -> check_page_boundary(d)
      [] name = "check_power_orientation" -> check_power_orientation(d)

ResultEntry(category, found, is_error) ==
    [category |-> category, issues |-> found, is_error |-> is_error]

\* a caller that stops at the first check with findings
RunNextCheckUntilFinding ==
    /\ rpc \in 0..(Len(CHECKS) - 1)
    /\ results = <<>>
    /\ LET entry == CHECKS[rpc + 1]
           found == call_check(entry.name, data, set_order)
       IN /\ issues' = found
          /\ ran' = entry.name
          /\ results' = IF found # <<>>
                        THEN Append(results, ResultEntry(entry.category, found, entry.is_error))
                        ELSE results
    /\ rpc' = rpc + 1
    /\ UNCHANGED <<data, netVars, set_order, first_call, mainVars, ercVars, bboxVars, extVars>>

\* one call of run_all_checks and the `if ...: results.append(...)` after it
RunNextCheck ==
    /\ rpc \in 0..(Len(CHECKS) - 1)
    /\ LET entry == CHECKS[rpc + 1]
           found == call_check(entry.name, data, set_order)
       IN /\ issues' = found
          /\ ran' = entry.name
          /\ results' = IF found # <<>>
                        THEN Append(results, ResultEntry(entry.category, found, entry.is_error))
                        ELSE results
    /\ rpc' = rpc + 1
    /\ UNCHANGED <<data, netVars, set_order, first_call, mainVars, ercVars, bboxVars, extVars>>

MaxRunWires == 2

\* a point of the page some 20 mm inside its border
RPt(xmm, ymm) == Pt(20 + xmm, 20 + ymm)

\* a horizontal wire, a vertical wire ending on its interior, the horizontal
\* wire drawn backwards, a wire along its right part, a diagonal wire and a
\* wire that starts left of the page border
RunWireChoices ==
    { <<RPt(0, 0), RPt(5, 0)>>, <<RPt(3, 0), RPt(3, 4)>>, <<RPt(5, 0), RPt(0, 0)>>,
      <<RPt(3, 0), RPt(8, 0)>>, <<RPt(0, 4), RPt(5, 3)>>, <<Pt(5, 20), RPt(0, 0)>> }

RunJunctionChoices == { {}, {RPt(3, 0)} }

\* no component; U1; U1 and U2 on top of each other; a VCC symbol lying on its side
RunCompChoices ==
    { <<>>, <<Comp(RefU1, "BOX", RPt(3, 2), 0)>>,
      <<Comp(RefU1, "BOX", RPt(3, 2), 0), Comp(RefU2, "BOX", RPt(4, 2), 90)>>,
      <<Comp(RefPWR, "VCC", RPt(0, 4), 90)>> }

\* no pin, or a pin of U1 at (3,0) whose stub points down into the body
RunPinChoices ==
    { [pins |-> <<>>, pin_stubs |-> <<>>],
      [pins |-> <<PinItem(RPt(3, 0), RefU1, "1", "BOX")>>,
       pin_stubs |-> <<StubItem(RPt(3, 0), 0, 1, 25400)>>] }

RunBlockChoices == { <<>>, <<SheetBlock("Byte 0", RPt(1, 1), 3 * MM, 2 * MM)>> }

\* the four horizontal and vertical wires of RunWireChoices that lie on the page
RunOrthogonalWireChoices ==
    { <<RPt(0, 0), RPt(5, 0)>>, <<RPt(3, 0), RPt(3, 4)>>, <<RPt(5, 0), RPt(0, 0)>>,
      <<RPt(3, 0), RPt(8, 0)>> }

\* schematics with up to MaxRunWires wires and every combination of the other
\* choices, and schematics of one more orthogonal wire and junctions only
RunAllInputs ==
    {[EmptyData EXCEPT !.wires = ws, !.junctions = js, !.components = cs,
                       !.pins = ps.pins, !.pin_stubs = ps.pin_stubs,
                       !.pin_positions = {ps.pins[k].pt : k \in 1..Len(ps.pins)},
                       !.sheet_blocks = bs,
                       !.lib_bboxes = BodyLibs, !.lib_body_bboxes = BodyLibs] :
        ws \in SeqsUpTo(RunWireChoices, MaxRunWires), js \in RunJunctionChoices,
        cs \in RunCompChoices, ps \in RunPinChoices, bs \in RunBlockChoices}
    \cup {[EmptyData EXCEPT !.wires = ws, !.junctions = js] :
            ws \in [1..(MaxRunWires + 1) -> RunOrthogonalWireChoices], js \in RunJunctionChoices}

InitRunAll ==
    /\ data \in RunAllInputs
    /\ set_order \in Orders(wire_endpoints(data.wires))
    /\ issues = <<>>
    /\ ran = "none"
    /\ results = <<>>
    /\ rpc = 0
    /\ first_call = EmptyMap
    /\ NetIdle /\ MainIdle /\ ErcIdle /\ BboxIdle /\ ExtIdle

NextRunAll == RunNextCheck

SpecRunAll == InitRunAll /\ [][NextRunAll]_vars

TJunctionsDone == ran = "check_tjunctions_without_dots"

\* the stretch a horizontal or vertical wire covers: direction, line, both ends
SpanOf(w) ==
    IF Y1(w) = Y2(w) THEN <<"H", Y1(w), Min2(X1(w), X2(w)), Max2(X1(w), X2(w))>>
    ELSE <<"V", X1(w), Min2(Y1(w), Y2(w)), Max2(Y1(w), Y2(w))>>

\* the issues that name the endpoint and the span of wire w
TJunctionReports(pt, w) ==
    {k \in 1..Len(issues) : issues[k].at = pt /\ SpanOf(issues[k].wire) = SpanOf(w)}

IsTJunctionFinding(x) == "dir" \in DOMAIN x /\ "at" \in DOMAIN x /\ x.kind = "T-junction"

\* C11: a wire endpoint is reported exactly when it lies strictly inside the
\* span of a horizontal or vertical wire and no junction is at it, once per
\* (endpoint, span); the T-junction findings, and only they, are warnings.
C11_TJunctionReportedOnceAndOnlyWarning ==
    /\ TJunctionsDone =>
          /\ \A pt \in wire_endpoints(data.wires) : \A i \in 1..Len(data.wires) :
                LET w == data.wires[i]
                IN IF StrictlyInsideSpan(pt, w) /\ pt \notin data.junctions
                   THEN Cardinality(TJunctionReports(pt, w)) = 1
                   ELSE X1(w) = X2(w) \/ Y1(w) = Y2(w) => TJunctionReports(pt, w) = {}
          /\ \A k \in 1..Len(issues) :
                /\ issues[k].wire \in Range(data.wires)
                /\ issues[k].at \in wire_endpoints(data.wires)
                /\ StrictlyInsideSpan(issues[k].at, issues[k].wire)
    /\ \A k \in 1..Len(results) :
          /\ results[k].is_error = FALSE <=> results[k].category = "T-junction (no dot)"
          /\ results[k].category = "T-junction (no dot)"
                <=> \A j \in 1..Len(results[k].issues) : IsTJunctionFinding(results[k].issues[j])

\* the horizontal wire and its reverse share a span: the end of the vertical
\* wire on it is reported once, as a warning, next to an error entry
C11_Witness ==
    /\ rpc = Len(CHECKS)
    /\ data.wires = << <<RPt(0, 0), RPt(5, 0)>>, <<RPt(5, 0), RPt(0, 0)>>, <<RPt(3, 0), RPt(3, 4)>> >>
    /\ data.junctions = {}
    /\ \E k \in 1..Len(results) :
          /\ results[k].is_error = FALSE
          /\ results[k].issues = <<TJunctionIssue(RPt(3, 0), <<RPt(0, 0), RPt(5, 0)>>)>>
    /\ \E k \in 1..Len(results) : results[k].is_error = TRUE

(***************************************************************************)
(* Component overlap: inputs and the run of the check                      *)
(***************************************************************************)
RunComponentOverlap ==
    /\ ran = "none"
    /\ issues' = check_component_overlap(data)
    /\ ran' = "check_component_overlap"
    /\ UNCHANGED <<data, restOfGeom>>

MaxOverlapComps == 3

RefU3 == <<"U", "3">>
RefJ1 == <<"J", "1">>

\* full boxes of the library symbols; PAD has none
OverlapLibs == BodyLibs @@ ("Conn_01x08" :> <<-1 * MM, -1 * MM, 1 * MM, 1 * MM>>)

\* U1 at (3,3) in two rotations; U2 overlapping it, touching its right edge or
\* touching its lower right corner; a connector and a power symbol on top of
\* U1; U3 without a box, 1 mm from U1's centre
OverlapCompChoices ==
    { Comp(RefU1, "BOX", Pt(3, 3), 0), Comp(RefU1, "BOX", Pt(3, 3), 90),
      Comp(RefU2, "BOX", Pt(4, 3), 0), Comp(RefU2, "BOX", Pt(5, 3), 0),
      Comp(RefU2, "BOX", Pt(5, 6), 0),
      Comp(RefJ1, "Conn_01x08", Pt(3, 3), 0), Comp(RefPWR, "VCC", Pt(3, 3), 0),
      Comp(RefU3, "PAD", Pt(3, 4), 0) }

InitCompOverlap ==
    /\ data \in {[EmptyData EXCEPT !.components = cs, !.lib_bboxes = OverlapLibs] :
                    cs \in {q \in SeqsUpTo(OverlapCompChoices, MaxOverlapComps) : DistinctRefs(q)}}
    /\ issues = <<>>
    /\ ran = "none"
    /\ RestOfGeomIdle

NextCompOverlap == RunComponentOverlap

SpecCompOverlap == InitCompOverlap /\ [][NextCompOverlap]_vars

CompOverlapDone == ran = "check_component_overlap"

\* the component's box in the schematic, None when its symbol has none
FullBoxOf(comp) ==
    IF comp.lib_name \in DOMAIN data.lib_bboxes
    THEN lib_bbox_to_schematic(data.lib_bboxes[comp.lib_name], comp.cx, comp.cy, comp.angle)
    ELSE None

\* the two boxes share more than the tolerance on both axes
BoxesIntersect(a, b) ==
    /\ OverlapLength(a[1], a[3], b[1], b[3]) > TOLERANCE
    /\ OverlapLength(a[2], a[4], b[2], b[4]) > TOLERANCE

\* how many of the issues of list `found` name the two components
PairReports(found, a, b) ==
    Cardinality({k \in 1..Len(found) : {found[k].ref_a, found[k].ref_b} = {a.ref, b.ref}})

IsPowerOrConnector(comp) == comp.ref[1] = "#" \/ comp.lib_name = "Conn_01x08"

Reverse(q) == [k \in 1..Len(q) |-> q[Len(q) + 1 - k]]

\* C12: one issue for each unordered pair of components, neither a power symbol
\* nor a connector, whose boxes intersect on both axes by more than the
\* tolerance; none when the boxes only touch; the same whichever is listed first.
C12_OneIssuePerOverlappingPair ==
    CompOverlapDone =>
        \A i, j \in 1..Len(data.components) :
            LET a == data.components[i]
                b == data.components[j]
            IN i < j =>
                /\ (~IsPowerOrConnector(a) /\ ~IsPowerOrConnector(b)
                        /\ FullBoxOf(a) # None /\ FullBoxOf(b) # None)
                      => /\ PairReports(issues, a, b)
                              = IF BoxesIntersect(FullBoxOf(a), FullBoxOf(b)) THEN 1 ELSE 0
                         /\ bboxes_overlap(FullBoxOf(a), FullBoxOf(b))
                              = bboxes_overlap(FullBoxOf(b), FullBoxOf(a))
                /\ (IsPowerOrConnector(a) \/ IsPowerOrConnector(b)) => PairReports(issues, a, b) = 0
                /\ PairReports(check_component_overlap(
                                  [data EXCEPT !.components = Reverse(data.components)]), a, b)
                      = PairReports(issues, a, b)

\* U1 and the overlapping U2 are reported once, U1 and the connector on top of
\* it are not
C12_Witness ==
    /\ CompOverlapDone
    /\ data.components = << Comp(RefJ1, "Conn_01x08", Pt(3, 3), 0), Comp(RefU2, "BOX", Pt(4, 3), 0),
                            Comp(RefU1, "BOX", Pt(3, 3), 0) >>
    /\ Len(issues) = 1
    /\ issues[1].ref_a = RefU2 /\ issues[1].ref_b = RefU1

(***************************************************************************)
(* Content on sheet blocks: inputs and the run of the check                *)
(***************************************************************************)
RunContentOnSheetBlocks ==
    /\ ran = "none"
    /\ issues' = check_content_on_sheet_blocks(data)
    /\ ran' = "check_content_on_sheet_blocks"
    /\ UNCHANGED <<data, restOfGeom>>

MaxBlockWires == 2
MaxBlockComps == 1

\* the block covers x 1..4, y 1..3; a second block lies right of it
BlockChoices ==
    { <<>>, <<SheetBlock("Byte 0", Pt(1, 1), 3 * MM, 2 * MM)>>,
      <<SheetBlock("Byte 0", Pt(1, 1), 3 * MM, 2 * MM),
        SheetBlock("Byte 1", Pt(6, 1), 3 * MM, 2 * MM)>> }

\* a wire straight through the block, one ending inside it, one along its left
\* edge, one above it, one wholly inside it, a diagonal one ending inside it
BlockWireChoices ==
    { <<Pt(3, 0), Pt(3, 4)>>, <<Pt(0, 2), Pt(2, 2)>>, <<Pt(1, 0), Pt(1, 4)>>,
      <<Pt(0, 0), Pt(5, 0)>>, <<Pt(2, 2), Pt(3, 2)>>, <<Pt(0, 0), Pt(2, 2)>> }

\* U1 over the block's upper edge, U1 between the two blocks, U3 without a box
\* with its centre in the block, a power symbol in the block
BlockCompChoices ==
    { Comp(RefU1, "BOX", Pt(3, 1), 0), Comp(RefU1, "BOX", Pt(5, 5), 0),
      Comp(RefU3, "PAD", Pt(2, 2), 0), Comp(RefPWR, "VCC", Pt(2, 2), 0) }

InitSheetBlocks ==
    /\ data \in {[EmptyData EXCEPT !.wires = ws, !.components = cs, !.sheet_blocks = bs,
                                   !.lib_bboxes = OverlapLibs] :
                    ws \in SeqsUpTo(BlockWireChoices, MaxBlockWires),
                    cs \in SeqsUpTo(BlockCompChoices, MaxBlockComps), bs \in BlockChoices}
    /\ issues = <<>>
    /\ ran = "none"
    /\ RestOfGeomIdle

NextSheetBlocks == RunContentOnSheetBlocks

SpecSheetBlocks == InitSheetBlocks /\ [][NextSheetBlocks]_vars

SheetBlocksDone == ran = "check_content_on_sheet_blocks"

\* the open intervals (a_min, a_max) and (b_min, b_max) share a point, a_min =
\* a_max standing for the single point a_min
MeetsInterior(a_min, a_max, b_min, b_max) ==
    IF a_min = a_max THEN b_min < a_min /\ a_min < b_max
    ELSE Max2(a_min, b_min) < Min2(a_max, b_max)

\* some part of the wire lies strictly inside the block (for a diagonal wire:
\* one of its ends does)
WirePartInsideBlock(w, blk) ==
    IF Y1(w) = Y2(w)
    THEN /\ blk.y < Y1(w) /\ Y1(w) < blk.y + blk.h
         /\ MeetsInterior(Min2(X1(w), X2(w)), Max2(X1(w), X2(w)), blk.x, blk.x + blk.w)
    ELSE IF X1(w) = X2(w)
    THEN /\ blk.x < X1(w) /\ X1(w) < blk.x + blk.w
         /\ MeetsInterior(Min2(Y1(w), Y2(w)), Max2(Y1(w), Y2(w)), blk.y, blk.y + blk.h)
    ELSE \E e \in {1, 2} : /\ blk.x < w[e][1] /\ w[e][1] < blk.x + blk.w
                           /\ blk.y < w[e][2] /\ w[e][2] < blk.y + blk.h

WireOnBlockReported(i, blk) ==
    \E k \in 1..Len(issues) :
        /\ issues[k].kind = "wire enters sheet block"
        /\ issues[k].w_idx = i - 1 /\ issues[k].block = blk

CompOnBlockReported(comp, blk) ==
    \E k \in 1..Len(issues) :
        /\ issues[k].kind = "component on sheet block"
        /\ issues[k].ref = comp.ref /\ issues[k].block = blk

\* C13: every wire with a part strictly inside a sheet block is reported, also
\* one that crosses the block with both ends outside; so is every non-power
\* component whose box overlaps the block's interior.
C13_EveryContentOnBlockReported ==
    SheetBlocksDone =>
        \A b \in 1..Len(data.sheet_blocks) :
            LET blk == data.sheet_blocks[b]
            IN /\ \A i \in 1..Len(data.wires) :
                    WirePartInsideBlock(data.wires[i], blk) => WireOnBlockReported(i, blk)
               /\ \A c \in 1..Len(data.components) :
                    LET comp == data.components[c]
                    IN (comp.ref[1] # "#" /\ FullBoxOf(comp) # None
                            /\ BoxesIntersect(FullBoxOf(comp), <<blk.x, blk.y, blk.x + blk.w, blk.y + blk.h>>))
                          => CompOnBlockReported(comp, blk)

\* the part of C13 the code keeps: wires with an end strictly inside the block,
\* and the components
SheetBlockContentWithEndInsideReported ==
    SheetBlocksDone =>
        \A b \in 1..Len(data.sheet_blocks) :
            LET blk == data.sheet_blocks[b]
            IN /\ \A i \in 1..Len(data.wires) :
                    WireOnBlockReported(i, blk)
                        <=> \E e \in {1, 2} :
                                /\ blk.x < data.wires[i][e][1] /\ data.wires[i][e][1] < blk.x + blk.w
                                /\ blk.y < data.wires[i][e][2] /\ data.wires[i][e][2] < blk.y + blk.h
               /\ \A c \in 1..Len(data.components) :
                    LET comp == data.components[c]
                    IN (comp.ref[1] # "#" /\ FullBoxOf(comp) # None
                            /\ BoxesIntersect(FullBoxOf(comp), <<blk.x, blk.y, blk.x + blk.w, blk.y + blk.h>>))
                          => CompOnBlockReported(comp, blk)

(***************************************************************************)
(* The order of the checks                                                 *)
(***************************************************************************)
MaxFairWires == 1

\* run_all_checks is straight-line code: each call is followed by the next
InitRunAllFair ==
    /\ InitRunAll
    /\ Len(data.wires) <= MaxFairWires

SpecRunAllFair == InitRunAllFair /\ [][NextRunAll]_vars /\ WF_vars(RunNextCheck)

\* the order in which the checks are defined in the file
DefinitionOrder ==
    << "check_diagonal_wires", "check_wire_overlaps", "check_dangling_endpoints",
       "check_wire_through_pins", "check_wire_through_body",
       "check_tjunctions_without_dots", "check_component_overlap",
       "check_content_on_sheet_blocks", "check_page_boundary",
       "check_wire_overlaps_pin_stub", "check_power_orientation" >>

\* the order in which they are called
CallOrder ==
    << "check_diagonal_wires", "check_wire_overlaps", "check_dangling_endpoints",
       "check_wire_through_pins", "check_wire_through_body",
       "check_tjunctions_without_dots", "check_wire_overlaps_pin_stub",
       "check_component_overlap", "check_content_on_sheet_blocks",
       "check_page_boundary", "check_power_orientation" >>

\* a step evaluates the next check of `order`, whatever was found before, and
\* appends one entry holding its issues exactly when it found some
EvaluatesNextOf(order) ==
    /\ rpc < Len(order)
    /\ rpc' = rpc + 1
    /\ ran' = order[rpc']
    /\ issues' = call_check(ran', data, set_order)
    /\ data' = data
    /\ IF issues' = <<>> THEN results' = results
       ELSE /\ Len(results') = Len(results) + 1
            /\ SubSeq(results', 1, Len(results)) = results
            /\ results'[Len(results')].issues = issues'

AllEvaluated(order) == rpc = Len(order)


\* C14 as stated: every check is evaluated, in the order diagonal wires, wire
\* overlaps, dangling endpoints, wire through pin, wire through body,
\* T-junctions, component overlap, content on sheet blocks, page boundary, wire
\* overlaps pin stub, power orientation, whatever was found before; the result
\* has one entry, in that order, for exactly the checks that found something.
C14_AllChecksInStatedOrder ==
    [][EvaluatesNextOf(DefinitionOrder)]_vars /\ <>AllEvaluated(DefinitionOrder)

\* C14 as the code has it: the same, with the pin-stub check evaluated right
\* after the T-junction check and before the component-overlap check.
C14_AllChecksInCallOrder ==
    [][EvaluatesNextOf(CallOrder)]_vars /\ <>AllEvaluated(CallOrder)

\* all checks done; the pin-stub check and the component-overlap check both
\* found something, after an earlier check had findings too
C14_Witness ==
    /\ AllEvaluated(CallOrder)
    /\ \E i, j, k \in 1..Len(results) :
          /\ i < j /\ j < k
          /\ results[j].category = "Wire Overlaps Pin Stub"
          /\ results[k].category = "Component Overlap"

(***************************************************************************)
(* run_erc and _is_standalone_artifact                                     *)
(*                                                                         *)
(* A text is the sequence of its words; `needle in text` holds when the    *)
(* words of needle occur in text one after the other.                      *)
(***************************************************************************)
contains(text, needle) ==
    \E k \in 0..(Len(text) - Len(needle)) :
        \A j \in 1..Len(needle) : text[k + j] = needle[j]

Violation(severity, vtype, description, items) ==
    [severity |-> severity, type |-> vtype, description |-> description, items |-> items]

is_standalone_artifact(violation) ==
    LET desc == violation.description
        vtype == violation.type
    IN IF contains(desc, <<"cannot", "be", "connected", "to", "non-existent", "parent", "sheet">>)
       THEN TRUE
       ELSE IF /\ vtype = "label_dangling"
               /\ \E k \in 1..Len(violation.items) :
                     contains(violation.items[k], <<"Hierarchical", "Label">>)
       THEN TRUE
       ELSE IF vtype = "wire_dangling" THEN TRUE
       ELSE IF vtype = "pin_not_driven" /\ contains(desc, <<"Input", "pin", "not", "driven">>)
       THEN TRUE
       ELSE IF vtype = "power_pin_not_driven" THEN TRUE
       ELSE FALSE

ErcErrorIssue(path, v) ==
    [kind |-> "ERROR", path |-> path, type |-> v.type, description |-> v.description,
     items_desc |-> v.items]
ErcWarnIssue(path, v) ==
    [kind |-> "WARN", path |-> path, type |-> v.type, description |-> v.description,
     items_desc |-> <<>>]
ErcFilteredIssue(n) ==
    [kind |-> "filtered", path |-> "", type |-> "", description |-> <<>>, items_desc |-> <<>>,
     count |-> n]
ErcNoJsonIssue == [kind |-> "ERC JSON output not generated"]
ErcNoCliIssue == [kind |-> "kicad-cli not found"]

ErcAcc(found, real_errors, warnings, filtered_count) ==
    [issues |-> found, real_errors |-> real_errors, warnings |-> warnings,
     filtered_count |-> filtered_count]

\* a loop body that filters the artifacts whether or not the sheet is checked alone
erc_violation_always_filtered(acc, path, v, standalone) ==
    IF is_standalone_artifact(v)
    THEN [acc EXCEPT !.filtered_count = @ + 1]
    ELSE IF v.severity = "error"
    THEN [acc EXCEPT !.real_errors = @ + 1, !.issues = Append(@, ErcErrorIssue(path, v))]
    ELSE IF v.severity = "warning"
    THEN [acc EXCEPT !.warnings = @ + 1, !.issues = Append(@, ErcWarnIssue(path, v))]
    ELSE acc

\* the body of `for v in sheet.get("violations", [])`
erc_violation(acc, path, v, standalone) ==
    IF standalone /\ is_standalone_artifact(v)
    THEN [acc EXCEPT !.filtered_count = @ + 1]
    ELSE IF v.severity = "error"
    THEN [acc EXCEPT !.real_errors = @ + 1, !.issues = Append(@, ErcErrorIssue(path, v))]
    ELSE IF v.severity = "warning"
    THEN [acc EXCEPT !.warnings = @ + 1, !.issues = Append(@, ErcWarnIssue(path, v))]
    ELSE acc

RECURSIVE erc_sheet(_, _, _, _)
erc_sheet(acc, path, violations, standalone) ==
    IF violations = <<>> THEN acc
    ELSE erc_sheet(erc_violation(acc, path, Head(violations), standalone),
                   path, Tail(violations), standalone)

RECURSIVE erc_sheets(_, _, _)
erc_sheets(acc, sheets, standalone) ==
    IF sheets = <<>> THEN acc
    ELSE erc_sheets(erc_sheet(acc, Head(sheets).path, Head(sheets).violations, standalone),
                    Tail(sheets), standalone)

\* run_erc after kicad-cli has run: json is the report it left (NoJson if none)
run_erc(cli_exists, json, standalone) ==
    IF ~cli_exists
    THEN <<<<ErcNoCliIssue>>, 0, 0>>
    ELSE LET scanned == IF json.exists
                        THEN erc_sheets(ErcAcc(<<>>, 0, 0, 0), json.sheets, standalone)
                        ELSE ErcAcc(<<ErcNoJsonIssue>>, 0, 0, 0)
             found == IF standalone /\ scanned.filtered_count > 0
                      THEN Append(scanned.issues, ErcFilteredIssue(scanned.filtered_count))
                      ELSE scanned.issues
         IN <<found, scanned.real_errors, scanned.warnings>>

KICAD_CLI == "kicad-cli"

RunErc ==
    /\ erc_out = <<>>
    /\ erc_out' = run_erc(fs[KICAD_CLI].exists, erc_json, erc_standalone)
    /\ UNCHANGED <<erc_json, erc_standalone, restOfErc>>

MaxViolations == 3

\* a real error, a real warning, the five kinds of standalone artifact, a
\* dangling plain label, an undriven pin that is no input, an excluded violation
ViolationChoices ==
    { Violation("error", "pin_not_connected", <<"Pin", "not", "connected">>, << <<"Pin", "1">> >>),
      Violation("warning", "lib_symbol_mismatch", <<"Symbol", "differs">>, <<>>),
      Violation("error", "wire_dangling", <<"Wire", "not", "connected">>, <<>>),
      Violation("error", "label_dangling", <<"Label", "not", "connected">>,
                << <<"Hierarchical", "Label", "A0">> >>),
      Violation("warning", "label_dangling", <<"Label", "not", "connected">>,
                << <<"Label", "D0">> >>),
      Violation("error", "pin_not_driven", <<"Input", "pin", "not", "driven">>, <<>>),
      Violation("error", "pin_not_driven", <<"Bidirectional", "pin", "not", "driven">>, <<>>),
      Violation("error", "power_pin_not_driven", <<"Power", "pin", "not", "driven">>, <<>>),
      Violation("error", "hier_label_mismatch",
                <<"Label", "cannot", "be", "connected", "to", "non-existent", "parent", "sheet">>,
                <<>>),
      Violation("exclusion", "pin_not_connected", <<"Pin", "not", "connected">>, <<>>) }

ErcSheet(path, violations) == [path |-> path, violations |-> violations]

\* no report, a report with no sheet, one sheet, or the violations spread over two
ErcJsonChoices ==
    {NoJson, [exists |-> TRUE, sheets |-> <<>>]}
    \cup {[exists |-> TRUE, sheets |-> <<ErcSheet("/", vs)>>] :
            vs \in SeqsUpTo(ViolationChoices, MaxViolations)}
    \cup {[exists |-> TRUE,
           sheets |-> <<ErcSheet("/", SubSeq(vs, 1, 1)), ErcSheet("/sub/", Tail(vs))>>] :
            vs \in SeqsUpTo(ViolationChoices, MaxViolations) \ {<<>>}}

InitErc ==
    /\ erc_json \in ErcJsonChoices
    /\ erc_standalone \in BOOLEAN
    /\ erc_out = <<>>
    /\ fs \in {(KICAD_CLI :> Missing), (KICAD_CLI :> [exists |-> TRUE])}
    /\ opts = EmptyMap
    /\ mpc = [at |-> "idle", i |-> 0]
    /\ total_errors = 0
    /\ total_warnings = 0
    /\ all_results = EmptyMap
    /\ exit_code = "none"
    /\ GeomIdle /\ NetIdle /\ RunIdle /\ BboxIdle /\ ExtIdle

NextErc == RunErc

SpecErc == InitErc /\ [][NextErc]_vars

ErcDone == erc_out # <<>>

\* the (path, violation) pairs of the report in file order
RECURSIVE ReportViolations(_)
ReportViolations(sheets) ==
    IF sheets = <<>> THEN <<>>
    ELSE [k \in 1..Len(Head(sheets).violations) |->
              [path |-> Head(sheets).path, v |-> Head(sheets).violations[k]]]
         \o ReportViolations(Tail(sheets))

CountOf(seq, Test(_)) == Cardinality({k \in 1..Len(seq) : Test(seq[k])})

\* C17: when the report was read, standalone=True drops from the list and from
\* both counters exactly the violations _is_standalone_artifact accepts and
\* appends their number; standalone=False drops none; every violation left of
\* severity error or warning is listed and counted once, and errors + warnings
\* + filtered never exceeds the number of violations.
C17_StandaloneArtifactsFiltered ==
    (ErcDone /\ fs[KICAD_CLI].exists /\ erc_json.exists) =>
        LET all == ReportViolations(erc_json.sheets)
            Removed(e) == erc_standalone /\ is_standalone_artifact(e.v)
            KeptError(e) == ~Removed(e) /\ e.v.severity = "error"
            KeptWarning(e) == ~Removed(e) /\ e.v.severity = "warning"
            Kept(e) == KeptError(e) \/ KeptWarning(e)
            filtered == CountOf(all, Removed)
            kept == SelectSeq(all, Kept)
            erc_issues == erc_out[1]
            erc_errors == erc_out[2]
            erc_warnings == erc_out[3]
            listed == SelectSeq(erc_issues, LAMBDA x : x.kind # "filtered")
            notes == SelectSeq(erc_issues, LAMBDA x : x.kind = "filtered")
        IN /\ erc_errors = CountOf(all, KeptError)
           /\ erc_warnings = CountOf(all, KeptWarning)
           /\ Len(listed) = Len(kept)
           /\ \A k \in 1..Len(kept) :
                 /\ listed[k].kind = (IF kept[k].v.severity = "error" THEN "ERROR" ELSE "WARN")
                 /\ listed[k].path = kept[k].path
                 /\ listed[k].type = kept[k].v.type
                 /\ listed[k].description = kept[k].v.description
           /\ IF filtered > 0
              THEN /\ notes = <<ErcFilteredIssue(filtered)>>
                   /\ erc_issues[Len(erc_issues)] = notes[1]
              ELSE notes = <<>>
           /\ ~erc_standalone => filtered = 0
           /\ erc_errors + erc_warnings + filtered <= Len(all)

\* a standalone run on a report of a real error, a dangling hierarchical label
\* and an excluded violation: one error listed, one artifact filtered
C17_Witness ==
    /\ ErcDone /\ erc_standalone /\ fs[KICAD_CLI].exists /\ erc_json.exists
    /\ Len(ReportViolations(erc_json.sheets)) = 3
    /\ erc_out[2] = 1 /\ erc_out[3] = 0
    /\ erc_out[1][Len(erc_out[1])] = ErcFilteredIssue(1)

(***************************************************************************)
(* verify_schematics.main and verify_pcb.main                              *)
(*                                                                         *)
(* The SVG export and the text report write below verify_output/ only and  *)
(* touch none of the variables; they are part of the step to the summary.  *)
(***************************************************************************)
SCHEMATIC_FILES ==
    << "ram.kicad_sch", "address_decoder.kicad_sch", "control_logic.kicad_sch",
       "write_clk_gen.kicad_sch", "read_oe_gen.kicad_sch", "byte.kicad_sch" >>

ROOT_SCH == "ram.kicad_sch"
PCB_PATH == "ram.kicad_pcb"
PCBWAY_RULES == "pcbway.kicad_dru"
ELECROW_RULES == "elecrow.kicad_dru"

At(place, i) == [at |-> place, i |-> i]

\* the eleven calls of the per-file block, from the k-th on
RECURSIVE file_results_from(_, _, _)
file_results_from(k, d, order) ==
    IF k > Len(CHECKS) THEN <<>>
    ELSE LET entry == CHECKS[k]
             found == call_check(entry.name, d, order)
         IN (IF found # <<>>
             THEN <<ResultEntry(entry.category, found, entry.is_error)>>
             ELSE <<>>) \o file_results_from(k + 1, d, order)

RECURSIVE count_issues(_, _)
count_issues(file_results, is_error) ==
    IF file_results = <<>> THEN 0
    ELSE (IF Head(file_results).is_error = is_error THEN Len(Head(file_results).issues) ELSE 0)
         + count_issues(Tail(file_results), is_error)

\* a caller that gives up at the first file that does not exist
VsAbortOnMissingFile ==
    /\ opts.script = "verify_schematics"
    /\ mpc.at = "files"
    /\ ~fs[SCHEMATIC_FILES[mpc.i]].exists
    /\ mpc' = At("done", 0)
    /\ exit_code' = 1
    /\ UNCHANGED <<fs, opts, total_errors, total_warnings, all_results, restOfMain>>

\* `continue` on a file that does not exist
VsSkipMissingFile ==
    /\ opts.script = "verify_schematics"
    /\ mpc.at = "files"
    /\ ~fs[SCHEMATIC_FILES[mpc.i]].exists
    /\ mpc' = IF mpc.i < Len(SCHEMATIC_FILES) THEN At("files", mpc.i + 1) ELSE At("netlist", 0)
    /\ UNCHANGED <<fs, opts, total_errors, total_warnings, all_results, exit_code, restOfMain>>

\* one iteration of `for sch_file in SCHEMATIC_FILES` on a file that exists
VsCheckFile ==
    /\ opts.script = "verify_schematics"
    /\ mpc.at = "files"
    /\ LET sch_file == SCHEMATIC_FILES[mpc.i]
       IN /\ fs[sch_file].exists
          /\ \E order \in Orders(wire_endpoints(fs[sch_file].data.wires)) :
                LET file_results == file_results_from(1, fs[sch_file].data, order)
                IN /\ total_errors' = total_errors + count_issues(file_results, TRUE)
                   /\ total_warnings' = total_warnings + count_issues(file_results, FALSE)
                   /\ all_results' = all_results @@ (sch_file :> file_results)
    /\ mpc' = IF mpc.i < Len(SCHEMATIC_FILES) THEN At("files", mpc.i + 1) ELSE At("netlist", 0)
    /\ UNCHANGED <<fs, opts, exit_code, restOfMain>>

MaxNetlistIssues == 1

\* check_netlist() and the count of its issues; for a root schematic that
\* exists the length of its list is an input of main
VsNetlist ==
    /\ opts.script = "verify_schematics"
    /\ mpc.at = "netlist"
    /\ \E n \in 0..MaxNetlistIssues :
          /\ ~fs[ROOT_SCH].exists => n = 1
          /\ total_errors' = total_errors + n
    /\ mpc' = IF opts.skip_erc THEN At("summary", 0) ELSE At("erc_root", 0)
    /\ UNCHANGED <<fs, opts, total_warnings, all_results, exit_code, restOfMain>>

\* the reports kicad-cli may leave for one schematic
MainErcJsonChoices ==
    { NoJson, [exists |-> TRUE, sheets |-> <<>>] }
    \cup {[exists |-> TRUE, sheets |-> <<ErcSheet("/", <<v>>)>>] :
            v \in { Violation("error", "pin_not_connected", <<"Pin", "not", "connected">>, <<>>),
                    Violation("warning", "lib_symbol_mismatch", <<"Symbol", "differs">>, <<>>),
                    Violation("error", "wire_dangling", <<"Wire", "not", "connected">>, <<>>) }}

\* ERC of the root sheet, full hierarchy
VsErcRoot ==
    /\ opts.script = "verify_schematics"
    /\ mpc.at = "erc_root"
    /\ IF fs[ROOT_SCH].exists
       THEN \E json \in MainErcJsonChoices :
               LET erc == run_erc(fs[KICAD_CLI].exists, json, FALSE)
               IN /\ total_errors' = total_errors + erc[2]
                  /\ total_warnings' = total_warnings + erc[3]
       ELSE UNCHANGED <<total_errors, total_warnings>>
    /\ mpc' = At("erc_sub", 1)
    /\ UNCHANGED <<fs, opts, all_results, exit_code, restOfMain>>

\* one iteration of the standalone ERC loop over the sub-sheets
VsErcSub ==
    /\ opts.script = "verify_schematics"
    /\ mpc.at = "erc_sub"
    /\ LET sch_file == SCHEMATIC_FILES[mpc.i]
       IN IF sch_file = ROOT_SCH \/ ~fs[sch_file].exists
          THEN UNCHANGED <<total_errors, total_warnings>>
          ELSE \E json \in MainErcJsonChoices :
                  LET erc == run_erc(fs[KICAD_CLI].exists, json, TRUE)
                  IN /\ total_errors' = total_errors + erc[2]
                     /\ total_warnings' = total_warnings + erc[3]
    /\ mpc' = IF mpc.i < Len(SCHEMATIC_FILES) THEN At("erc_sub", mpc.i + 1) ELSE At("summary", 0)
    /\ UNCHANGED <<fs, opts, all_results, exit_code, restOfMain>>

\* a summary that looks at the errors only
VsSummaryErrorsOnly ==
    /\ opts.script = "verify_schematics"
    /\ mpc.at = "summary"
    /\ exit_code' = IF total_errors > 0 THEN 1 ELSE 0
    /\ mpc' = At("done", 0)
    /\ UNCHANGED <<fs, opts, total_errors, total_warnings, all_results, restOfMain>>

\* total_issues = total_errors + total_warnings; return 1 if total_issues > 0 else 0
VsSummary ==
    /\ opts.script = "verify_schematics"
    /\ mpc.at = "summary"
    /\ exit_code' = IF total_errors + total_warnings > 0 THEN 1 ELSE 0
    /\ mpc' = At("done", 0)
    /\ UNCHANGED <<fs, opts, total_errors, total_warnings, all_results, restOfMain>>

\* verify_pcb: the board file does not exist
VpBoardMissing ==
    /\ opts.script = "verify_pcb"
    /\ mpc.at = "start"
    /\ ~fs[PCB_PATH].exists
    /\ exit_code' = 1
    /\ mpc' = At("done", 0)
    /\ UNCHANGED <<fs, opts, total_errors, total_warnings, all_results, restOfMain>>

RECURSIVE SumSeq(_)
SumSeq(q) == IF q = <<>> THEN 0 ELSE Head(q) + SumSeq(Tail(q))

\* verify_pcb: the six board-structure checks; the board file holds how many
\* issues each of them finds
VpBoardChecks ==
    /\ opts.script = "verify_pcb"
    /\ mpc.at = "start"
    /\ fs[PCB_PATH].exists
    /\ total_errors' = total_errors + SumSeq(fs[PCB_PATH].board_issues)
    /\ mpc' = IF ~opts.skip_drc /\ fs[KICAD_CLI].exists THEN At("drc", 1) ELSE At("summary", 0)
    /\ UNCHANGED <<fs, opts, total_warnings, all_results, exit_code, restOfMain>>

DRC_RULES == << "default", PCBWAY_RULES, ELECROW_RULES >>

MaxDrcCount == 1

\* verify_pcb: the default DRC run and the two runs with custom rules, each
\* skipped when its rules file is missing
VpDrc ==
    /\ opts.script = "verify_pcb"
    /\ mpc.at = "drc"
    /\ IF mpc.i = 1 \/ fs[DRC_RULES[mpc.i]].exists
       THEN \E errors \in 0..MaxDrcCount, warnings \in 0..MaxDrcCount :
               /\ total_errors' = total_errors + errors
               /\ total_warnings' = total_warnings + warnings
       ELSE UNCHANGED <<total_errors, total_warnings>>
    /\ mpc' = IF mpc.i < Len(DRC_RULES) THEN At("drc", mpc.i + 1) ELSE At("summary", 0)
    /\ UNCHANGED <<fs, opts, all_results, exit_code, restOfMain>>

VpSummary ==
    /\ opts.script = "verify_pcb"
    /\ mpc.at = "summary"
    /\ exit_code' = IF total_errors + total_warnings > 0 THEN 1 ELSE 0
    /\ mpc' = At("done", 0)
    /\ UNCHANGED <<fs, opts, total_errors, total_warnings, all_results, restOfMain>>

(***************************************************************************)
(* main: inputs                                                            *)
(***************************************************************************)
MaxVariedFiles == 3

Present == [exists |-> TRUE]
SchFile(d) == [exists |-> TRUE, data |-> d]

\* an empty page; a page with a diagonal wire (an error); a page with a wire
\* ending on another wire without a junction dot (a warning)
CleanPage == EmptyData
DiagonalPage == [EmptyData EXCEPT !.wires = << <<RPt(0, 4), RPt(5, 3)>> >>]
TJunctionPage ==
    [EmptyData EXCEPT !.wires = << <<RPt(0, 0), RPt(5, 0)>>, <<RPt(3, 0), RPt(3, 4)>> >>]

SchFileChoices == {Missing, SchFile(CleanPage), SchFile(DiagonalPage), SchFile(TJunctionPage)}

\* the first MaxVariedFiles schematics vary, the others are empty pages
SchematicDirs ==
    {[n \in Range(SCHEMATIC_FILES) \cup {KICAD_CLI} |->
         IF n = KICAD_CLI THEN cli
         ELSE IF \E k \in 1..MaxVariedFiles : k <= Len(SCHEMATIC_FILES) /\ SCHEMATIC_FILES[k] = n
              THEN varied[CHOOSE k \in 1..MaxVariedFiles : SCHEMATIC_FILES[k] = n]
              ELSE SchFile(CleanPage)] :
        cli \in {Missing, Present}, varied \in [1..MaxVariedFiles -> SchFileChoices]}

BoardFile(board_issues) == [exists |-> TRUE, board_issues |-> board_issues]

BoardChoices ==
    {Missing, BoardFile(<<0, 0, 0, 0, 0, 0>>), BoardFile(<<1, 0, 0, 0, 0, 0>>),
     BoardFile(<<0, 0, 0, 0, 2, 1>>)}

BoardDirs ==
    {[n \in {PCB_PATH, KICAD_CLI, PCBWAY_RULES, ELECROW_RULES} |->
         CASE n = PCB_PATH -> board [] n = KICAD_CLI -> cli
           [] n = PCBWAY_RULES -> pcbway [] n = ELECROW_RULES -> elecrow] :
        board \in BoardChoices, cli \in {Missing, Present},
        pcbway \in {Missing, Present}, elecrow \in {Missing, Present}}

InitVerifySchematics ==
    /\ opts \in {[script |-> "verify_schematics", skip_erc |-> b] : b \in BOOLEAN}
    /\ fs \in SchematicDirs
    /\ mpc = At("files", 1)

InitVerifyPcb ==
    /\ opts \in {[script |-> "verify_pcb", skip_drc |-> b] : b \in BOOLEAN}
    /\ fs \in BoardDirs
    /\ mpc = At("start", 0)

InitMain ==
    /\ InitVerifySchematics \/ InitVerifyPcb
    /\ total_errors = 0
    /\ total_warnings = 0
    /\ all_results = EmptyMap
    /\ exit_code = "none"
    /\ RestOfMainIdle

NextMain ==
    \/ VsSkipMissingFile
    \/ VsCheckFile
    \/ VsNetlist
    \/ VsErcRoot
    \/ VsErcSub
    \/ VsSummary
    \/ VpBoardMissing
    \/ VpBoardChecks
    \/ VpDrc
    \/ VpSummary

SpecMain == InitMain /\ [][NextMain]_vars

MainDone == mpc.at = "done"

BoardMissing == opts.script = "verify_pcb" /\ ~fs[PCB_PATH].exists

\* C15 as stated: main returns 1 exactly when at least one error-severity
\* finding was counted, and 0 otherwise; a run with warnings only returns 0.
C15_ExitOneIffErrorCounted ==
    MainDone => /\ exit_code \in {0, 1}
                /\ exit_code = 1 <=> total_errors > 0

\* C15 as the code has it: main returns 1 exactly when at least one finding of
\* either severity was counted (or verify_pcb found no board file), and 0
\* otherwise; a run with warnings only returns 1.
C15_ExitOneIffAnyFindingCounted ==
    MainDone => /\ exit_code \in {0, 1}
                /\ exit_code = 1 <=> (total_errors + total_warnings > 0 \/ BoardMissing)

\* verify_schematics ended with T-junction warnings only, and returned 1
C15_Witness ==
    /\ MainDone /\ opts.script = "verify_schematics"
    /\ total_errors = 0 /\ total_warnings > 0
    /\ \E f \in DOMAIN all_results :
          \E k \in 1..Len(all_results[f]) : ~all_results[f][k].is_error
    /\ exit_code = 1

SomeInputMissing ==
    \/ opts.script = "verify_schematics"
         /\ \E k \in 1..Len(SCHEMATIC_FILES) : ~fs[SCHEMATIC_FILES[k]].exists
    \/ BoardMissing

ExistingSchematics ==
    {SCHEMATIC_FILES[k] : k \in {j \in 1..Len(SCHEMATIC_FILES) : fs[SCHEMATIC_FILES[j]].exists}}

\* C16 as stated: when a schematic of SCHEMATIC_FILES, or the board file, does
\* not exist the run aborts with a failing exit code: it does not skip the
\* file and go on with the other files and checks.
C16_MissingInputIsFatal ==
    (MainDone /\ SomeInputMissing) =>
        /\ exit_code = 1
        /\ opts.script = "verify_schematics" =>
              \A k \in 1..Len(SCHEMATIC_FILES) :
                  ~fs[SCHEMATIC_FILES[k]].exists =>
                      \A j \in (k + 1)..Len(SCHEMATIC_FILES) :
                          SCHEMATIC_FILES[j] \notin DOMAIN all_results

\* C16 as the code has it: verify_pcb returns 1 without any check when the
\* board file does not exist; verify_schematics skips a schematic that does
\* not exist and checks every one that exists, and only a missing root
\* schematic makes it return 1, through the netlist check.
C16_MissingBoardFatalMissingSchematicSkipped ==
    MainDone =>
        /\ BoardMissing => (exit_code = 1 /\ total_errors = 0 /\ total_warnings = 0)
        /\ opts.script = "verify_schematics" =>
              /\ DOMAIN all_results = ExistingSchematics
              /\ ~fs[ROOT_SCH].exists => (exit_code = 1 /\ total_errors > 0)
              /\ exit_code = 1 <=> total_errors + total_warnings > 0

\* verify_schematics found a sub-sheet missing before one that exists, checked
\* the others and returned 0
C16_Witness ==
    /\ MainDone /\ opts.script = "verify_schematics"
    /\ ~fs[SCHEMATIC_FILES[2]].exists
    /\ SCHEMATIC_FILES[3] \in DOMAIN all_results
    /\ exit_code = 0

(***************************************************************************)
(* The checks as functions of the parsed data                              *)
(***************************************************************************)
CHECK_NAMES == {CHECKS[k].name : k \in 1..Len(CHECKS)}

\* a check that pops the wires off the list of its argument as it walks it
data_after_popping_wires(name, d) == [d EXCEPT !.wires = <<>>]

\* the dict a check leaves behind: every check reads data[...] into locals and
\* builds new lists, sets and dicts; none assigns to data or to one of its
\* containers, and the only in-place sort is on a local list
data_after(name, d) == d

MaxCalls == 3

\* any check, called on the data as the calls before left it
CallCheck ==
    /\ rpc < MaxCalls
    /\ \E name \in CHECK_NAMES :
          LET found == call_check(name, data, set_order)
          IN /\ issues' = found
             /\ ran' = name
             /\ data' = data_after(name, data)
             /\ first_call' = IF name \in DOMAIN first_call THEN first_call
                              ELSE first_call @@ (name :> found)
    /\ rpc' = rpc + 1
    /\ UNCHANGED <<netVars, set_order, results, mainVars, ercVars, bboxVars, extVars>>

InitCalls ==
    /\ InitRunAll
    /\ Len(data.wires) <= MaxFairWires

NextCalls == CallCheck

SpecCalls == InitCalls /\ [][NextCalls]_vars

LibBboxToSchematic ==
    /\ Len(bbox_ret) < Len(bbox_calls)
    /\ LET call == bbox_calls[Len(bbox_ret) + 1]
       IN bbox_ret' = Append(bbox_ret,
                             lib_bbox_to_schematic(call[1], call[2], call[3], call[4]))
    /\ UNCHANGED <<bbox_calls, restOfBbox>>

\* half sizes of library boxes in 0.0001 mm: 0.003, 0.0127, 1.27 and 2.54 mm
BboxHalfSizes == {30, 127, 12700, 25400}

\* boxes symmetric about the origin, and two that are not
LibBboxChoices ==
    {<<-a, -b, a, b>> : a \in BboxHalfSizes, b \in BboxHalfSizes}
    \cup {<<-12700, -12700, 12700, 25400>>, <<0, -127, 25400, 30>>}

BboxCentreChoices == {Pt(0, 0), Pt(3, 2), Pt(-2, 7)}

BboxAngles == {0, 90, 180, 270}

\* a symbol placed at one centre at two angles, and at a second centre
InitBbox ==
    /\ bbox_calls \in {<< <<b, c1[1], c1[2], a1>>, <<b, c1[1], c1[2], a2>>,
                          <<b, c2[1], c2[2], a1>> >> :
                          b \in LibBboxChoices, c1 \in BboxCentreChoices,
                          c2 \in BboxCentreChoices, a1 \in BboxAngles, a2 \in BboxAngles}
    /\ bbox_ret = <<>>
    /\ RestOfBboxIdle

NextBbox == LibBboxToSchematic

SpecBbox == InitBbox /\ [][NextBbox]_vars

BboxCallsDone == bbox_calls # <<>> /\ Len(bbox_ret) = Len(bbox_calls)

SymmetricAboutOrigin(b) == b[1] = -b[3] /\ b[2] = -b[4]

\* C19: for a library box symmetric about the origin the box at rotation 0
\* and the box at rotation 180 for the same centre are equal, and the boxes
\* for two centres differ by the translation between the centres.
C19_SymmetricBoxSameAtHalfTurn ==
    (BboxCallsDone /\ SymmetricAboutOrigin(bbox_calls[1][1])) =>
        /\ (bbox_calls[1][4] = 0 /\ bbox_calls[2][4] = 180) => bbox_ret[1] = bbox_ret[2]
        /\ LET tx == bbox_calls[3][2] - bbox_calls[1][2]
               ty == bbox_calls[3][3] - bbox_calls[1][3]
           IN bbox_ret[3] = << bbox_ret[1][1] + tx, bbox_ret[1][2] + ty,
                               bbox_ret[1][3] + tx, bbox_ret[1][4] + ty >>

\* a symmetric box that is not square and not on the 0.01 mm grid, placed at
\* rotation 0 and 180 at (3, 2) and at rotation 0 at (-2, 7)
C19_Witness ==
    /\ BboxCallsDone
    /\ bbox_calls[1] = <<<<-127, -25400, 127, 25400>>, 3 * MM, 2 * MM, 0>>
    /\ bbox_calls[2][4] = 180
    /\ bbox_calls[3][2] = -2 * MM /\ bbox_calls[3][3] = 7 * MM
    /\ bbox_ret[1] = bbox_ret[2]
    /\ bbox_ret[1] = <<3 * MM - 100, 2 * MM - 25400, 3 * MM + 100, 2 * MM + 25400>>

(***************************************************************************)
(* route_pcb.main                                                          *)
(*                                                                         *)
(* A file is Missing or holds a content; the contents written by the tools *)
(* are named after what they were made from.                               *)
(***************************************************************************)
PCB_INPUT == "ram.kicad_pcb"
PCB_ROUTED == "ram_routed.kicad_pcb"
DSN_PATH == "ram.dsn"
SES_PATH == "ram.ses"
FREEROUTING_JAR == "freerouting.jar"

File(content) == [exists |-> TRUE, content |-> content]

DsnOf(board) == File(<<"dsn of", board.content>>)
SesOf(dsn) == File(<<"ses of", dsn.content>>)
RoutedBoard(board, ses) == File(<<"routed", board.content, ses.content>>)

Exit(status) ==
    /\ exit_code' = status
    /\ mpc' = At("done", 0)

\* print(...): more lines on the console.  A line is a step header, a
\* "warning", an "error" (an ERROR message before sys.exit(1), or the traceback
\* of an exception nobody catches) or the "loading" line of verify_pcb.py.
Say(lines) == console' = console \o lines

Step(name) == <<"step", name>>
Error(name) == <<"error", name>>
Warning(name) == <<"warning", name>>

\* `if not os.path.isfile(PCB_INPUT): return 1`
RpCheckInput ==
    /\ opts.script = "route_pcb"
    /\ mpc.at = "start"
    /\ IF ~fs[PCB_INPUT].exists
       THEN Say(<<Error("no board")>>) /\ Exit(1)
       ELSE mpc' = At("jar", 0) /\ UNCHANGED <<exit_code, console>>
    /\ UNCHANGED <<fs, opts, total_errors, total_warnings, all_results, restOfRoute>>

\* step 1, ensure_freerouting_jar: the jar is there, or is downloaded, or the
\* download fails
RpEnsureJar ==
    /\ opts.script = "route_pcb"
    /\ mpc.at = "jar"
    /\ IF fs[FREEROUTING_JAR].exists
       THEN /\ Say(<<Step("jar")>>)
            /\ mpc' = At("export_dsn", 0) /\ UNCHANGED <<fs, exit_code>>
       ELSE \/ /\ fs' = [fs EXCEPT ![FREEROUTING_JAR] = File(<<"jar">>)]
               /\ Say(<<Step("jar")>>)
               /\ mpc' = At("export_dsn", 0) /\ UNCHANGED exit_code
            \/ Say(<<Step("jar"), Error("jar")>>) /\ Exit(1) /\ UNCHANGED fs
    /\ UNCHANGED <<opts, total_errors, total_warnings, all_results, restOfRoute>>

\* a step 2 that goes on to FreeRouting whatever --dry-run says
RpExportDsnThenRoute ==
    /\ opts.script = "route_pcb"
    /\ mpc.at = "export_dsn"
    /\ \E returncode \in {0, 1}, timed_out \in BOOLEAN, written \in BOOLEAN :
          /\ fs' = IF written THEN [fs EXCEPT ![DSN_PATH] = DsnOf(fs[PCB_INPUT])] ELSE fs
          /\ IF timed_out \/ returncode # 0 \/ ~fs'[DSN_PATH].exists
             THEN Say(<<Step("export_dsn"), Error("export_dsn")>>) /\ Exit(1)
             ELSE /\ Say(<<Step("export_dsn")>>)
                  /\ mpc' = At("freerouting", 0) /\ UNCHANGED exit_code
    /\ UNCHANGED <<opts, total_errors, total_warnings, all_results, restOfRoute>>

\* step 2, export_dsn(PCB_INPUT, DSN_PATH): the KiCad script loads the board and
\* writes the DSN, or fails or runs into the timeout (an exception nobody
\* catches) before or after writing it; then the --dry-run return
RpExportDsn ==
    /\ opts.script = "route_pcb"
    /\ mpc.at = "export_dsn"
    /\ \E returncode \in {0, 1}, timed_out \in BOOLEAN, written \in BOOLEAN :
          /\ fs' = IF written THEN [fs EXCEPT ![DSN_PATH] = DsnOf(fs[PCB_INPUT])] ELSE fs
          /\ IF timed_out \/ returncode # 0 \/ ~fs'[DSN_PATH].exists
             THEN Say(<<Step("export_dsn"), Error("export_dsn")>>) /\ Exit(1)
             ELSE /\ Say(<<Step("export_dsn")>>)
                  /\ IF opts.dry_run THEN Exit(0)
                     ELSE mpc' = At("freerouting", 0) /\ UNCHANGED exit_code
    /\ UNCHANGED <<opts, total_errors, total_warnings, all_results, restOfRoute>>

\* step 3, run_freerouting: no java, or a run that ends with a return code or in
\* the timeout, either of them only printed as a warning, and that leaves a
\* session file or none
RpRunFreerouting ==
    /\ opts.script = "route_pcb"
    /\ mpc.at = "freerouting"
    /\ IF ~opts.java
       THEN Say(<<Step("freerouting"), Error("java")>>) /\ Exit(1) /\ UNCHANGED fs
       ELSE \E returncode \in {0, 1}, timed_out \in BOOLEAN, written \in BOOLEAN :
               /\ fs' = IF written THEN [fs EXCEPT ![SES_PATH] = SesOf(fs[DSN_PATH])] ELSE fs
               /\ Say(<<Step("freerouting")>>
                        \o (IF timed_out \/ returncode # 0
                            THEN <<Warning("freerouting")>> ELSE <<>>)
                        \o (IF ~fs'[SES_PATH].exists THEN <<Error("no ses")>> ELSE <<>>))
               /\ IF ~fs'[SES_PATH].exists
                  THEN Exit(1)
                  ELSE mpc' = At("copy", 0) /\ UNCHANGED exit_code
    /\ UNCHANGED <<opts, total_errors, total_warnings, all_results, restOfRoute>>

\* step 4, import_ses, first half: shutil.copy2(pcb_input, pcb_output)
RpCopyBoard ==
    /\ opts.script = "route_pcb"
    /\ mpc.at = "copy"
    /\ Say(<<Step("import_ses")>>)
    /\ fs' = [fs EXCEPT ![PCB_ROUTED] = fs[PCB_INPUT]]
    /\ mpc' = At("import_ses", 0)
    /\ UNCHANGED <<opts, total_errors, total_warnings, all_results, exit_code, restOfRoute>>

\* an import that loads and saves the unrouted board itself
RpImportSesInPlace ==
    /\ opts.script = "route_pcb"
    /\ mpc.at = "import_ses"
    /\ \E returncode \in {0, 1}, timed_out \in BOOLEAN, saved \in BOOLEAN :
          /\ (returncode = 0 /\ ~timed_out) => saved
          /\ fs' = IF saved
                   THEN [fs EXCEPT ![PCB_INPUT] = RoutedBoard(fs[PCB_INPUT], fs[SES_PATH])]
                   ELSE fs
          /\ IF timed_out \/ returncode # 0
             THEN Say(<<Error("import_ses")>>) /\ Exit(1)
             ELSE mpc' = At("verify", 0) /\ UNCHANGED <<exit_code, console>>
    /\ UNCHANGED <<opts, total_errors, total_warnings, all_results, restOfRoute>>

\* step 4, import_ses, second half: the KiCad script loads pcb_output, imports
\* the session and saves pcb_output, or fails or runs into the timeout before or
\* after saving
RpImportSes ==
    /\ opts.script = "route_pcb"
    /\ mpc.at = "import_ses"
    /\ \E returncode \in {0, 1}, timed_out \in BOOLEAN, saved \in BOOLEAN :
          /\ (returncode = 0 /\ ~timed_out) => saved
          /\ fs' = IF saved
                   THEN [fs EXCEPT ![PCB_ROUTED] = RoutedBoard(fs[PCB_ROUTED], fs[SES_PATH])]
                   ELSE fs
          /\ IF timed_out \/ returncode # 0
             THEN Say(<<Error("import_ses")>>) /\ Exit(1)
             ELSE mpc' = At("verify", 0) /\ UNCHANGED <<exit_code, console>>
    /\ UNCHANGED <<opts, total_errors, total_warnings, all_results, restOfRoute>>

\* verify_pcb.main as run_post_route_verify starts it, with "--post-routing" in
\* sys.argv: the only argument main looks for is "--no-drc"; it returns 1 when
\* PCB_PATH is missing, and else loads PCB_PATH and returns 1 or 0 by what the
\* checks and the DRC find in it
verify_pcb_main(dir, findings) ==
    IF ~dir[PCB_PATH].exists
    THEN [printed |-> <<>>, returncode |-> 1]
    ELSE [printed |-> <<<<"loading", PCB_PATH>>>>,
          returncode |-> IF findings > 0 THEN 1 ELSE 0]

\* a step 5 whose result is the script's exit code
RpVerifyStrict ==
    /\ opts.script = "route_pcb"
    /\ mpc.at = "verify"
    /\ IF opts.skip_verify
       THEN Say(<<Step("verification skipped")>>) /\ Exit(0)
       ELSE \E findings \in {0, 1}, timed_out \in BOOLEAN :
               LET run == verify_pcb_main(fs, findings)
               IN  /\ Say(<<Step("verify")>> \o run.printed
                            \o (IF timed_out THEN <<Error("verify")>>
                                ELSE IF run.returncode # 0 THEN <<Warning("verify")>>
                                ELSE <<>>))
                   /\ IF timed_out \/ run.returncode # 0 THEN Exit(1) ELSE Exit(0)
    /\ UNCHANGED <<fs, opts, total_errors, total_warnings, all_results, restOfRoute>>

\* step 5: the verification is skipped, or run_post_route_verify starts
\* verify_pcb.py; its return code is only printed as a warning, its timeout is
\* an exception nobody catches; `return 0`
RpVerify ==
    /\ opts.script = "route_pcb"
    /\ mpc.at = "verify"
    /\ IF opts.skip_verify
       THEN Say(<<Step("verification skipped")>>) /\ Exit(0)
       ELSE \E findings \in {0, 1}, timed_out \in BOOLEAN :
               LET run == verify_pcb_main(fs, findings)
               IN  /\ Say(<<Step("verify")>> \o run.printed
                            \o (IF timed_out THEN <<Error("verify")>>
                                ELSE IF run.returncode # 0 THEN <<Warning("verify")>>
                                ELSE <<>>))
                   /\ IF timed_out THEN Exit(1) ELSE Exit(0)
    /\ UNCHANGED <<fs, opts, total_errors, total_warnings, all_results, restOfRoute>>

\* what the board directory may hold before the run: two boards, and files
\* left by an earlier run
RouteDirs ==
    {[n \in {PCB_INPUT, PCB_ROUTED, DSN_PATH, SES_PATH, FREEROUTING_JAR} |->
         CASE n = PCB_INPUT -> board [] n = PCB_ROUTED -> routed [] n = DSN_PATH -> dsn
           [] n = SES_PATH -> ses [] n = FREEROUTING_JAR -> jar] :
        board \in {Missing, File(<<"board", "A">>), File(<<"board", "B">>)},
        routed \in {Missing, File(<<"routed", <<"board", "old">>, <<"ses of", <<"dsn of", <<"board", "old">>>>>>>>)},
        dsn \in {Missing, File(<<"dsn of", <<"board", "old">>>>)},
        ses \in {Missing, File(<<"ses of", <<"dsn of", <<"board", "old">>>>>>)},
        jar \in {Missing, File(<<"jar">>)}}

InitRoute ==
    /\ opts \in {[script |-> "route_pcb", dry_run |-> d, skip_verify |-> v, java |-> j] :
                    d \in BOOLEAN, v \in BOOLEAN, j \in BOOLEAN}
    /\ fs \in RouteDirs
    /\ mpc = At("start", 0)
    /\ total_errors = 0
    /\ total_warnings = 0
    /\ all_results = EmptyMap
    /\ exit_code = "none"
    /\ console = <<>>
    /\ GeomIdle /\ NetIdle /\ RunIdle /\ ErcIdle /\ BboxIdle /\ RestOfRouteExtIdle

NextRoute ==
    \/ RpCheckInput
    \/ RpEnsureJar
    \/ RpExportDsn
    \/ RpRunFreerouting
    \/ RpCopyBoard
    \/ RpImportSes
    \/ RpVerify

SpecRoute == InitRoute /\ [][NextRoute]_vars

\* the step headers among the printed lines, in the order they were printed
RECURSIVE StepsOf(_)
StepsOf(lines) ==
    IF lines = <<>> THEN <<>>
    ELSE (IF Head(lines)[1] = "step" THEN <<Head(lines)[2]>> ELSE <<>>) \o StepsOf(Tail(lines))

Printed(line) == \E k \in 1..Len(console) : console[k] = line

IsPrefix(s, t) == Len(s) <= Len(t) /\ SubSeq(t, 1, Len(s)) = s

\* C21: with --dry-run the run goes through the JAR check and the DSN export
\* only: it never starts FreeRouting, the SES import or the verification, never
\* writes ram_routed.kicad_pcb or the session file, and it returns 0 as soon as
\* the DSN export has succeeded.
C21_DryRunStopsAfterDsnExport ==
    [][(opts.script = "route_pcb" /\ opts.dry_run) =>
          /\ mpc'.at \in {"start", "jar", "export_dsn", "done"}
          /\ fs'[PCB_ROUTED] = fs[PCB_ROUTED]
          /\ fs'[SES_PATH] = fs[SES_PATH]
          /\ IsPrefix(StepsOf(console'), <<"jar", "export_dsn">>)
          /\ (mpc.at = "export_dsn" /\ ~Printed(Error("export_dsn"))') =>
                 /\ mpc'.at = "done"
                 /\ exit_code' = 0
                 /\ fs'[DSN_PATH].exists
          /\ (mpc'.at = "done" /\ mpc.at # "done") =>
                 (exit_code' = 0 <=> StepsOf(console') = <<"jar", "export_dsn">>
                                      /\ \A k \in 1..Len(console') : console'[k][1] # "error")]_vars

\* a dry run that returned 0: the DSN of board A is there, no routed board
C21_Witness ==
    /\ opts.script = "route_pcb" /\ opts.dry_run /\ mpc.at = "done" /\ exit_code = 0
    /\ console = <<Step("jar"), Step("export_dsn")>>
    /\ fs[DSN_PATH] = DsnOf(File(<<"board", "A">>))
    /\ ~fs[PCB_ROUTED].exists /\ ~fs[SES_PATH].exists

PipelineOrders ==
    {<<"jar", "export_dsn", "freerouting", "import_ses", last>> :
        last \in {"verify", "verification skipped"}}

StepsInOrder == \E order \in PipelineOrders : IsPrefix(StepsOf(console), order)

\* C22 as stated: the steps run in order, and any failure - FreeRouting's
\* non-zero exit or timeout and a failed verification among them - is the last
\* thing of the run, whose exit code is not 0.
C22_AnyFailedStepAborts ==
    /\ StepsInOrder
    /\ \A k \in 1..Len(console) :
          console[k][1] \in {"error", "warning"} =>
              /\ \A j \in (k + 1)..Len(console) : console[j][1] = "error"
              /\ mpc.at = "done"
              /\ exit_code # 0

\* C22: the steps run in the order JAR check, DSN export, FreeRouting, SES
\* import, verification.  A failed JAR download, a failed or timed-out DSN export,
\* a missing java, a missing SES file, a failed or timed-out SES import and a
\* timed-out verification end the run at once with a non-zero exit code; a
\* non-zero exit or timeout of FreeRouting that left an SES file and a
\* verification that reported issues are warnings only: the run goes on and a
\* run without an error returns 0.
C22_ErrorsAbortWarningsDoNot ==
    /\ StepsInOrder
    /\ \A k \in 1..Len(console) :
          console[k][1] = "error" =>
              /\ k = Len(console)
              /\ mpc.at = "done"
              /\ exit_code # 0
    /\ (mpc.at = "done" /\ \A k \in 1..Len(console) : console[k][1] # "error") =>
          /\ exit_code = 0
          /\ StepsOf(console) \in PipelineOrders \/ opts.dry_run
    /\ (mpc.at = "done" /\ ~opts.dry_run /\ exit_code = 0) =>
          /\ fs[DSN_PATH].exists /\ fs[SES_PATH].exists
          /\ fs[PCB_ROUTED] = RoutedBoard(fs[PCB_INPUT], fs[SES_PATH])

\* a run that returned 0 although FreeRouting exited non-zero or timed out and
\* the verification reported issues
C22_Witness ==
    /\ opts.script = "route_pcb" /\ mpc.at = "done" /\ exit_code = 0
    /\ Printed(Warning("freerouting")) /\ Printed(Warning("verify"))
    /\ StepsOf(console) = <<"jar", "export_dsn", "freerouting", "import_ses", "verify">>

\* C23: the verification of step 5 loads ram_routed.kicad_pcb.
C23_VerificationLoadsRoutedBoard ==
    \A k \in 1..Len(console) : console[k][1] = "loading" => console[k][2] = PCB_ROUTED

\* C20: in every run - dry run, success or abort at any step - ram.kicad_pcb
\* is never written; a routing result is written to ram_routed.kicad_pcb only,
\* and that file is a copy of the unrouted board when the session is imported.
C20_UnroutedBoardNeverWritten ==
    [][/\ fs'[PCB_INPUT] = fs[PCB_INPUT]
       /\ \A n \in DOMAIN fs :
             (fs'[n] # fs[n] /\ fs'[n].exists /\ fs'[n].content[1] = "routed") =>
                 /\ n = PCB_ROUTED
                 /\ fs[PCB_ROUTED] = fs[PCB_INPUT]
                 /\ fs'[n] = RoutedBoard(fs[PCB_INPUT], fs[SES_PATH])]_vars

\* a full run that ended with 0: the routed board is there, made from board A,
\* and ram.kicad_pcb still holds board A
C20_Witness ==
    /\ opts.script = "route_pcb" /\ mpc.at = "done" /\ exit_code = 0 /\ ~opts.dry_run
    /\ fs[PCB_INPUT] = File(<<"board", "A">>)
    /\ fs[PCB_ROUTED] = RoutedBoard(File(<<"board", "A">>), SesOf(DsnOf(File(<<"board", "A">>))))

(***************************************************************************)
(* generate_ram.fix_instance_paths                                         *)
(*                                                                         *)
(* A reference is a sequence of characters, a file name a sequence of its  *)
(* stem and its extension, an instance path the sequence of its uuids.     *)
(***************************************************************************)
DigitChars == <<"0", "1", "2", "3", "4", "5", "6", "7", "8", "9">>

IsDigit(c) == \E i \in 1..10 : DigitChars[i] = c

\* p.value.rstrip("0123456789")
RECURSIVE rstrip_digits(_)
rstrip_digits(value) ==
    IF value # <<>> /\ IsDigit(value[Len(value)])
    THEN rstrip_digits(SubSeq(value, 1, Len(value) - 1))
    ELSE value

\* int(num_str) if num_str else 0
RECURSIVE int_of(_)
int_of(num_str) ==
    IF num_str = <<>> THEN 0
    ELSE 10 * int_of(SubSeq(num_str, 1, Len(num_str) - 1))
           + (CHOOSE i \in 1..10 : DigitChars[i] = num_str[Len(num_str)]) - 1

\* f"{n}"
RECURSIVE str_of(_)
str_of(n) ==
    IF n < 10 THEN <<DigitChars[n + 1]>>
    ELSE str_of(n \div 10) \o <<DigitChars[(n % 10) + 1]>>

\* SchematicBuilder._next_ref and place_symbol: the symbols a builder holds
\* after placing symbols with the given prefixes, each with its Reference
\* property and its one instance path, the local one
RECURSIVE place_symbols(_, _)
place_symbols(uuid, prefixes) ==
    IF prefixes = <<>> THEN <<>>
    ELSE LET before == place_symbols(uuid, SubSeq(prefixes, 1, Len(prefixes) - 1))
             prefix == prefixes[Len(prefixes)]
             n == 1 + Cardinality({k \in 1..Len(before) :
                                      rstrip_digits(before[k].Reference) = prefix})
             ref == prefix \o str_of(n)
         IN  Append(before, [Reference |-> ref,
                             paths |-> <<[sheetInstancePath |-> <<uuid>>, reference |-> ref]>>])

counter_get(counters, prefix) == IF prefix \in DOMAIN counters THEN counters[prefix] ELSE 0

\* counters that do not start after the root sheet's references
root_counters_from_zero(symbols) == << >>

\* the loop over root_sch.schematicSymbols: per prefix the largest number used
\* on the root sheet
RECURSIVE root_counters(_)
root_counters(symbols) ==
    IF symbols = <<>> THEN << >>
    ELSE LET before == root_counters(SubSeq(symbols, 1, Len(symbols) - 1))
             value == symbols[Len(symbols)].Reference
             prefix == rstrip_digits(value)
             num == int_of(SubSeq(value, Len(prefix) + 1, Len(value)))
             largest == IF counter_get(before, prefix) > num
                        THEN counter_get(before, prefix) ELSE num
         IN  (prefix :> largest) @@ before

\* the inner loop: one more path, with the next reference of the prefix, per
\* sheet block of the file (one block for a single-instance sheet); the paths
\* the symbol has are kept
RECURSIVE append_paths(_, _, _)
append_paths(sym, counters, inst_paths) ==
    IF inst_paths = <<>> THEN [sym |-> sym, counters |-> counters]
    ELSE LET prefix == rstrip_digits(sym.Reference)
             n == counter_get(counters, prefix) + 1
             inst_ref == prefix \o str_of(n)
         IN  append_paths(
                 [sym EXCEPT !.paths = Append(@, [sheetInstancePath |-> Head(inst_paths),
                                                  reference |-> inst_ref])],
                 (prefix :> n) @@ counters,
                 Tail(inst_paths))

\* `for sym in builder.sch.schematicSymbols`
RECURSIVE fix_symbols(_, _, _)
fix_symbols(symbols, counters, inst_paths) ==
    IF symbols = <<>> THEN [symbols |-> <<>>, counters |-> counters]
    ELSE LET first == append_paths(Head(symbols), counters, inst_paths)
             rest == fix_symbols(Tail(symbols), first.counters, inst_paths)
         IN  [symbols |-> <<first.sym>> \o rest.symbols, counters |-> rest.counters]

KICAD_SCH == ".kicad_sch"

\* fname.replace(".kicad_sch", "")
builder_name(fname) == SelectSeq(fname, LAMBDA part : part # KICAD_SCH)

RAM == <<"ram">>

\* global_counters = {} and the loop over the root sheet's symbols
FipRootCounters ==
    /\ fpc.at = "counters"
    /\ global_counters' = root_counters(builders[RAM].symbols)
    /\ fpc' = At("sheets", 1)
    /\ UNCHANGED <<builders, restOfFip>>

\* one turn of `for sheet in root_sch.sheets`
FipSheet ==
    /\ fpc.at = "sheets"
    /\ fpc.i <= Len(builders[RAM].sheets)
    /\ LET root == builders[RAM]
           sheet == root.sheets[fpc.i]
           name == builder_name(sheet.fileName)
           all_sheet_blocks == SelectSeq(root.sheets, LAMBDA b : b.fileName = sheet.fileName)
           is_first_instance == sheet = all_sheet_blocks[1]
           is_multi_instance == Len(all_sheet_blocks) > 1
           inst_paths == [k \in 1..Len(all_sheet_blocks) |-> <<root.uuid, all_sheet_blocks[k].uuid>>]
       IN  IF name \notin DOMAIN builders \/ (is_multi_instance /\ ~is_first_instance)
           THEN UNCHANGED <<builders, global_counters>>
           ELSE LET fixed == fix_symbols(builders[name].symbols, global_counters, inst_paths)
                IN  /\ builders' = [builders EXCEPT ![name].symbols = fixed.symbols]
                    /\ global_counters' = fixed.counters
    /\ fpc' = At("sheets", fpc.i + 1)
    /\ UNCHANGED restOfFip

\* the loop is over
FipReturn ==
    /\ fpc.at = "sheets"
    /\ fpc.i > Len(builders[RAM].sheets)
    /\ fpc' = At("done", 0)
    /\ UNCHANGED <<builders, global_counters, restOfFip>>

MaxRootSymbols == 2
MaxSheetSymbols == 2
MaxSheetBlocks == 3

RefPrefixes == {<<"U">>, <<"#", "P", "W", "R">>}

SUB_SHEETS == {<<"byte">>, <<"address_decoder">>}

\* _add_sheet_block: the sheet blocks of the root sheet, each with a uuid of its own
SheetBlockChoices ==
    {[k \in 1..Len(files) |-> [fileName |-> files[k] \o <<KICAD_SCH>>, uuid |-> <<"block">> \o str_of(k)]] :
        files \in SeqsUpTo(SUB_SHEETS, MaxSheetBlocks)}

\* main: every sub-sheet is generated, then the root sheet
BuilderChoices ==
    {(RAM :> [uuid |-> <<"sheet", "ram">>, sheets |-> blocks,
              symbols |-> place_symbols(<<"sheet", "ram">>, root)])
       @@ [name \in SUB_SHEETS |->
              [uuid |-> <<"sheet", name[1]>>, sheets |-> <<>>,
               symbols |-> place_symbols(<<"sheet", name[1]>>,
                                         IF name = <<"byte">> THEN byte ELSE decoder)]] :
        blocks \in SheetBlockChoices,
        root \in SeqsUpTo(RefPrefixes, MaxRootSymbols),
        byte \in SeqsUpTo(RefPrefixes, MaxSheetSymbols) \ {<<>>},
        decoder \in SeqsUpTo(RefPrefixes, MaxSheetSymbols) \ {<<>>}}

InitFip ==
    /\ builders \in BuilderChoices
    /\ global_counters = << >>
    /\ fpc = At("counters", 0)
    /\ BaseIdle /\ RestOfFipExtIdle

NextFip ==
    \/ FipRootCounters
    \/ FipSheet
    \/ FipReturn

SpecFip == InitFip /\ [][NextFip]_vars

\* the hierarchical instance paths: <<builder, symbol, path>> of every path
\* that leads from the root sheet through a sheet block
HierEntries ==
    {e \in UNION {{<<name, k, j>> : k \in 1..Len(builders[name].symbols), j \in 1..(MaxSheetBlocks + 1)} :
                     name \in SUB_SHEETS} :
        /\ e[3] <= Len(builders[e[1]].symbols[e[2]].paths)
        /\ Len(builders[e[1]].symbols[e[2]].paths[e[3]].sheetInstancePath) = 2}

EntryOf(e) == builders[e[1]].symbols[e[2]].paths[e[3]]

BlocksOf(name) ==
    {k \in 1..Len(builders[RAM].sheets) : builder_name(builders[RAM].sheets[k].fileName) = name}

\* C24: after fix_instance_paths no two hierarchical instance paths carry the
\* same reference, none carries a reference of the root sheet, a symbol of a
\* sheet file with k sheet blocks has k hierarchical paths, one per block, and
\* every symbol still has its local path with its own reference first.
C24_HierarchicalReferencesUnique ==
    fpc.at = "done" =>
        /\ \A e1, e2 \in HierEntries : e1 # e2 => EntryOf(e1).reference # EntryOf(e2).reference
        /\ \A e \in HierEntries : \A k \in 1..Len(builders[RAM].symbols) :
              EntryOf(e).reference # builders[RAM].symbols[k].Reference
        /\ \A name \in SUB_SHEETS : \A k \in 1..Len(builders[name].symbols) :
              LET paths == builders[name].symbols[k].paths
              IN  /\ Len(paths) = 1 + Cardinality(BlocksOf(name))
                  /\ {paths[j].sheetInstancePath : j \in 2..Len(paths)}
                        = {<<builders[RAM].uuid, builders[RAM].sheets[b].uuid>> : b \in BlocksOf(name)}
                  /\ paths[1] = [sheetInstancePath |-> <<builders[name].uuid>>,
                                 reference |-> builders[name].symbols[k].Reference]

\* a design with U1 on the root sheet and three byte blocks: the byte sheet's
\* U1 is U2, U3 and U4 in the three instances
C24_Witness ==
    /\ fpc.at = "done"
    /\ Cardinality(BlocksOf(<<"byte">>)) = 3
    /\ Len(builders[RAM].symbols) > 0 /\ builders[RAM].symbols[1].Reference = <<"U", "1">>
    /\ builders[<<"byte">>].symbols[1].Reference = <<"U", "1">>
    /\ [j \in 1..4 |-> builders[<<"byte">>].symbols[1].paths[j].reference]
          = <<<<"U", "1">>, <<"U", "2">>, <<"U", "3">>, <<"U", "4">>>>

(***************************************************************************)
(* SchematicBuilder.add_segmented_trunk                                    *)
(***************************************************************************)
\* sorted(S)
RECURSIVE sorted_set(_)
sorted_set(S) ==
    IF S = {} THEN <<>>
    ELSE <<SetMin(S)>> \o sorted_set(S \ {SetMin(S)})

\* add_wire: both ends snapped, the wire appended
add_wire(items, x1, y1, x2, y2) == Append(items, <<<<snap(x1), snap(y1)>>, <<snap(x2), snap(y2)>>>>)

\* add_junction: the position snapped, the junction appended
add_junction(dots, x, y) == Append(dots, <<snap(x), snap(y)>>)

\* `for i in range(len(sorted_ys) - 1): self.add_wire(...)`, from i on
RECURSIVE trunk_wires(_, _, _, _)
trunk_wires(items, x, sorted_ys, i) ==
    IF i > Len(sorted_ys) - 1 THEN items
    ELSE trunk_wires(add_wire(items, x, sorted_ys[i], x, sorted_ys[i + 1]), x, sorted_ys, i + 1)

\* `for y in sorted_ys[1:-1]: self.add_junction(x, y)`
RECURSIVE trunk_junctions(_, _, _)
trunk_junctions(dots, x, inner_ys) ==
    IF inner_ys = <<>> THEN dots
    ELSE trunk_junctions(add_junction(dots, x, Head(inner_ys)), x, Tail(inner_ys))

\* a trunk drawn as one wire from the smallest to the largest Y
add_trunk_as_one_wire(sheet, x, ys) ==
    LET sorted_ys == sorted_set({snap(ys[k]) : k \in 1..Len(ys)})
    IN  IF Len(sorted_ys) < 2 THEN sheet
        ELSE [graphicalItems |-> add_wire(sheet.graphicalItems, x, sorted_ys[1],
                                          x, sorted_ys[Len(sorted_ys)]),
              junctions |-> trunk_junctions(sheet.junctions, x,
                                            SubSeq(sorted_ys, 2, Len(sorted_ys) - 1))]

add_segmented_trunk(sheet, x, ys) ==
    LET sorted_ys == sorted_set({snap(ys[k]) : k \in 1..Len(ys)})
    IN  IF Len(sorted_ys) < 2 THEN sheet
        ELSE [graphicalItems |-> trunk_wires(sheet.graphicalItems, x, sorted_ys, 1),
              junctions |-> trunk_junctions(sheet.junctions, x,
                                            SubSeq(sorted_ys, 2, Len(sorted_ys) - 1))]

MaxTrunkYs == 3
MaxTrunkCalls == 2

\* Y values on and off the 0.01 mm grid; the second snaps to the first
TrunkYChoices == {10 * MM, 10 * MM + 40, 12 * MM + 60, 15 * MM}
TrunkXChoices == {20 * MM, 30 * MM + 30}

AddSegmentedTrunk ==
    /\ Len(trunk_calls) < MaxTrunkCalls
    /\ \E x \in TrunkXChoices, ys \in SeqsUpTo(TrunkYChoices, MaxTrunkYs) :
          LET sheet == add_segmented_trunk([graphicalItems |-> graphicalItems,
                                            junctions |-> sch_junctions], x, ys)
          IN  /\ graphicalItems' = sheet.graphicalItems
              /\ sch_junctions' = sheet.junctions
              /\ trunk_calls' = Append(trunk_calls, [x |-> x, ys |-> ys])
    /\ UNCHANGED restOfTrunk

InitTrunk ==
    /\ graphicalItems = <<>>
    /\ sch_junctions = <<>>
    /\ trunk_calls = <<>>
    /\ BaseIdle /\ RestOfTrunkExtIdle

NextTrunk == AddSegmentedTrunk

SpecTrunk == InitTrunk /\ [][NextTrunk]_vars

\* the distinct snapped Y values of a call
SnappedYs(call) == {snap(call.ys[k]) : k \in 1..Len(call.ys)}

\* pairs of values with no value between them
ConsecutiveYs(S) == {p \in S \X S : p[1] < p[2] /\ ~\E c \in S : p[1] < c /\ c < p[2]}

AddedTo(old, new) == SubSeq(new, Len(old) + 1, Len(new))

\* the stretch two vertical wires on one line have in common
SharedLength(w1, w2) ==
    LET lo == Max2(Min2(Y1(w1), Y2(w1)), Min2(Y1(w2), Y2(w2)))
        hi == Min2(Max2(Y1(w1), Y2(w1)), Max2(Y1(w2), Y2(w2)))
    IN  IF hi > lo THEN hi - lo ELSE 0

\* C25: a call with n >= 2 distinct snapped Y values appends n-1 vertical wires
\* at the snapped x, one per pair of consecutive values, in ascending order, and
\* junctions at the n-2 inner values; with fewer values it appends nothing.
\* Every value is then an end of an added wire, and two added wires have no
\* stretch in common.  What the sheet held before is kept.
C25_TrunkIsSegmented ==
    [][trunk_calls' # trunk_calls =>
          LET call == trunk_calls'[Len(trunk_calls')]
              S == SnappedYs(call)
              n == Cardinality(S)
              wires == AddedTo(graphicalItems, graphicalItems')
              dots == AddedTo(sch_junctions, sch_junctions')
          IN  /\ SubSeq(graphicalItems', 1, Len(graphicalItems)) = graphicalItems
              /\ SubSeq(sch_junctions', 1, Len(sch_junctions)) = sch_junctions
              /\ IF n < 2
                 THEN wires = <<>> /\ dots = <<>>
                 ELSE /\ Len(wires) = n - 1
                      /\ Range(wires) = {<<<<snap(call.x), p[1]>>, <<snap(call.x), p[2]>>>> :
                                            p \in ConsecutiveYs(S)}
                      /\ \A i \in 1..(Len(wires) - 1) : Y2(wires[i]) = Y1(wires[i + 1])
                      /\ Len(dots) = n - 2
                      /\ Range(dots) = {<<snap(call.x), y>> : y \in S \ {SetMin(S), SetMax(S)}}
                      /\ \A y \in S : \E i \in 1..Len(wires) : y \in {Y1(wires[i]), Y2(wires[i])}
                      /\ \A i, j \in 1..Len(wires) : i # j => SharedLength(wires[i], wires[j]) = 0]_vars

\* a trunk through three values, two of four given values snapping to one: two
\* wires and one junction
C25_Witness ==
    /\ Len(trunk_calls) = 1
    /\ trunk_calls[1] = [x |-> 30 * MM + 30, ys |-> <<15 * MM, 10 * MM + 40, 12 * MM + 60>>]
    /\ graphicalItems = <<<<<<30 * MM, 10 * MM>>, <<30 * MM, 12 * MM + 100>>>>,
                          <<<<30 * MM, 12 * MM + 100>>, <<30 * MM, 15 * MM>>>>>>
    /\ sch_junctions = <<<<30 * MM, 12 * MM + 100>>>>

(***************************************************************************)
(* symbols.get_lib_symbols, get_raw_lib_texts, get_pin_offsets             *)
(*                                                                         *)
(* An object carries the number of the load that made it, so that two      *)
(* loads never make the same object.  A call works on the three module     *)
(* globals and the log and ends with a "return" or a "raise" entry.        *)
(***************************************************************************)
Globals(symbols, raw_texts, offsets, log) ==
    [ALL_SYMBOLS |-> symbols, RAW_LIB_TEXTS |-> raw_texts, PIN_OFFSETS |-> offsets, log |-> log]

Raised(g) == g.log # <<>> /\ g.log[Len(g.log)][1] = "raise"

EventCount(log, kind) == Cardinality({k \in 1..Len(log) : log[k][1] = kind})

\* load_lib_symbols: FileNotFoundError when a stock library is missing, else a
\* new pair of dicts
load_lib_symbols(g, libs_ok) ==
    LET id == EventCount(g.log, "load") + 1
    IN  IF libs_ok
        THEN [g EXCEPT !.ALL_SYMBOLS = <<"symbols", id>>,
                       !.RAW_LIB_TEXTS = <<"raw texts", id>>,
                       !.log = Append(@, <<"load", TRUE>>)]
        ELSE [g EXCEPT !.log = @ \o <<<<"load", FALSE>>, <<"raise">>>>]

\* a get_lib_symbols that loads on every call
get_lib_symbols_reloading(g, libs_ok) == load_lib_symbols(g, libs_ok)

\* get_lib_symbols, up to its return statement
get_lib_symbols(g, libs_ok) ==
    IF g.ALL_SYMBOLS = None THEN load_lib_symbols(g, libs_ok) ELSE g

\* discover_pin_offsets: every probe embeds a library symbol (get_lib_symbols),
\* saves the probe schematic in board_dir and runs the ERC, whose report holds
\* the pins or does not; the offsets do not hold board_dir
discover_pin_offsets(g, board_dir, env) ==
    LET loaded == get_lib_symbols(g, env.libs_ok)
        id == EventCount(g.log, "discover") + 1
    IN  IF Raised(loaded) THEN loaded
        ELSE IF ~env.dir_ok
        THEN [loaded EXCEPT !.log = @ \o <<<<"discover", board_dir, FALSE>>, <<"raise">>>>]
        ELSE [loaded EXCEPT !.PIN_OFFSETS = <<"offsets", id, IF env.erc_ok THEN "erc" ELSE "none">>,
                            !.log = Append(@, <<"discover", board_dir, TRUE>>)]

\* the fallback loop of get_pin_offsets: keys the ERC did not give are filled in
\* from the library symbols, in the same dict
fill_fallbacks(offsets) ==
    IF offsets[3] = "none" THEN <<offsets[1], offsets[2], "fallback">> ELSE offsets

\* get_pin_offsets(board_dir), up to its return statement
get_pin_offsets(g, board_dir, env) ==
    IF g.PIN_OFFSETS = None
    THEN LET found == discover_pin_offsets(g, board_dir, env)
         IN  IF Raised(found) THEN found
             ELSE [found EXCEPT !.PIN_OFFSETS = fill_fallbacks(@)]
    ELSE g

Return(g, value) == IF Raised(g) THEN g ELSE [g EXCEPT !.log = Append(@, <<"return", value>>)]

SymGlobals == Globals(ALL_SYMBOLS, RAW_LIB_TEXTS, PIN_OFFSETS, sym_log)

Called(fn, board_dir) == [SymGlobals EXCEPT !.log = Append(@, <<"call", fn, board_dir>>)]

SymSet(g) ==
    /\ ALL_SYMBOLS' = g.ALL_SYMBOLS
    /\ RAW_LIB_TEXTS' = g.RAW_LIB_TEXTS
    /\ PIN_OFFSETS' = g.PIN_OFFSETS
    /\ sym_log' = g.log

MaxSymCalls == 4

TEMP_DIR == "tempfile.gettempdir()"
BoardDirChoices == {"None", "boards/ram-prototype"}

SymEnvChoices == [libs_ok : BOOLEAN, dir_ok : BOOLEAN, erc_ok : BOOLEAN]

CanCall == EventCount(sym_log, "call") < MaxSymCalls

GetLibSymbols ==
    /\ CanCall
    /\ \E libs_ok \in BOOLEAN :
          LET g == get_lib_symbols(Called("get_lib_symbols", "None"), libs_ok)
          IN  SymSet(Return(g, g.ALL_SYMBOLS))
    /\ UNCHANGED restOfSym

GetRawLibTexts ==
    /\ CanCall
    /\ \E libs_ok \in BOOLEAN :
          LET g == get_lib_symbols(Called("get_raw_lib_texts", "None"), libs_ok)
          IN  SymSet(Return(g, g.RAW_LIB_TEXTS))
    /\ UNCHANGED restOfSym

GetPinOffsets ==
    /\ CanCall
    /\ \E board_dir \in BoardDirChoices, env \in SymEnvChoices :
          LET g == get_pin_offsets(Called("get_pin_offsets", board_dir),
                                   IF board_dir = "None" THEN TEMP_DIR ELSE board_dir, env)
          IN  SymSet(Return(g, g.PIN_OFFSETS))
    /\ UNCHANGED restOfSym

InitSym ==
    /\ ALL_SYMBOLS = None
    /\ RAW_LIB_TEXTS = None
    /\ PIN_OFFSETS = None
    /\ sym_log = <<>>
    /\ BaseIdle /\ RestOfSymExtIdle

NextSym ==
    \/ GetLibSymbols
    \/ GetRawLibTexts
    \/ GetPinOffsets

SpecSym == InitSym /\ [][NextSym]_vars

\* the call an entry of the log belongs to
CallOf(k) == sym_log[SetMax({c \in 1..k : sym_log[c][1] = "call"})]

ReturnsOf(fn) ==
    {k \in 1..Len(sym_log) : sym_log[k][1] = "return" /\ CallOf(k)[2] = fn}

\* C26: in one process at most one load and at most one discovery succeed; a
\* load or discovery is tried exactly by the calls that find the cache empty,
\* the first demand among them; after the successful one nothing is loaded or
\* discovered again and every call returns the object made then, whatever
\* board_dir a get_pin_offsets call is given.
C26_LoadedAndDiscoveredOnce ==
    /\ Cardinality({k \in 1..Len(sym_log) : sym_log[k] = <<"load", TRUE>>}) <= 1
    /\ Cardinality({k \in 1..Len(sym_log) : sym_log[k][1] = "discover" /\ sym_log[k][3]}) <= 1
    /\ \A k \in 1..Len(sym_log) :
          /\ sym_log[k] = <<"load", TRUE>> =>
                /\ \A j \in (k + 1)..Len(sym_log) : sym_log[j][1] # "load"
                /\ \A j \in ReturnsOf("get_lib_symbols") :
                      j > k => sym_log[j][2] = <<"symbols", EventCount(SubSeq(sym_log, 1, k), "load")>>
                /\ \A j \in ReturnsOf("get_raw_lib_texts") :
                      j > k => sym_log[j][2] = <<"raw texts", EventCount(SubSeq(sym_log, 1, k), "load")>>
          /\ (sym_log[k][1] = "discover" /\ sym_log[k][3]) =>
                /\ \A j \in (k + 1)..Len(sym_log) : sym_log[j][1] # "discover"
                /\ \A i, j \in ReturnsOf("get_pin_offsets") :
                      (i > k /\ j > k) => sym_log[i][2] = sym_log[j][2]
          /\ sym_log[k][1] \in {"load", "discover"} => sym_log[k - 1][1] \in {"call", "load"}
    /\ \A k \in 1..Len(sym_log) :
          (sym_log[k][1] = "call" /\ \A j \in 1..k : sym_log[j] # <<"load", TRUE>>
             /\ k < Len(sym_log)) => sym_log[k + 1][1] = "load"
    /\ ALL_SYMBOLS # None <=> \E k \in 1..Len(sym_log) : sym_log[k] = <<"load", TRUE>>
    /\ PIN_OFFSETS # None <=> \E k \in 1..Len(sym_log) : sym_log[k][1] = "discover" /\ sym_log[k][3]

\* a failed load, then offsets discovered in the board directory, then two
\* more calls, one with no board_dir: one load, one discovery, the same objects
C26_Witness ==
    /\ Len(sym_log) = 11
    /\ sym_log[2] = <<"load", FALSE>> /\ sym_log[3] = <<"raise">>
    /\ sym_log[4] = <<"call", "get_pin_offsets", "boards/ram-prototype">>
    /\ sym_log[5] = <<"load", TRUE>>
    /\ sym_log[6] = <<"discover", "boards/ram-prototype", TRUE>>
    /\ sym_log[8] = <<"call", "get_pin_offsets", "None">>
    /\ sym_log[9] = sym_log[7]
    /\ sym_log[10] = <<"call", "get_lib_symbols", "None">>
    /\ sym_log[11] = <<"return", <<"symbols", 2>>>>

(***************************************************************************)
(* PCBBuilder.add_l_trace                                                  *)
(*                                                                         *)
(* Lengths are whole numbers of 0.0001 mm.  Where the result of the float  *)
(* arithmetic depends on the binary value of the operands - rounding a     *)
(* value that lies halfway between two grid steps, comparing two equal     *)
(* decimal values - both outcomes are possible.                            *)
(***************************************************************************)
\* round(v, 2)
round2(v) ==
    IF v % SNAP_STEP = SNAP_STEP \div 2
    THEN {v - SNAP_STEP \div 2, v + SNAP_STEP \div 2}
    ELSE {snap(v)}

\* a < b and a > b on floats
float_less(a, b) == IF a = b THEN BOOLEAN ELSE {a < b}
float_greater(a, b) == IF a = b THEN BOOLEAN ELSE {a > b}

Min3(a, b, c) == Min2(a, Min2(b, c))

\* add_trace: both ends rounded, the segment appended and returned
add_trace(start, end) == <<<<snap(start[1]), snap(start[2])>>, <<snap(end[1]), snap(end[2])>>>>

\* the lists add_l_trace(start, end, horizontal_first, chamfer) can return
add_l_trace(start, end, horizontal_first, chamfer) ==
    LET sx == snap(start[1])
        sy == snap(start[2])
        ex == snap(end[1])
        ey == snap(end[2])
        h_len == Abs(ex - sx)
        v_len == Abs(ey - sy)
        d == Min3(chamfer, h_len \div 2, v_len \div 2)
        sign_h == IF ex > sx THEN 1 ELSE -1
        sign_v == IF ey > sy THEN 1 ELSE -1
        bends == IF horizontal_first
                 THEN {<<<<x, sy>>, <<ex, y>>>> :
                          x \in round2(ex - sign_h * d), y \in round2(sy + sign_v * d)}
                 ELSE {<<<<sx, y>>, <<x, ey>>>> :
                          y \in round2(ey - sign_v * d), x \in round2(sx + sign_h * d)}
        aligned == {a \/ b : a \in float_less(Abs(sx - ex), SNAP_STEP),
                             b \in float_less(Abs(sy - ey), SNAP_STEP)}
        bent == UNION {
                  {(IF first THEN <<add_trace(<<sx, sy>>, p[1])>> ELSE <<>>)
                     \o <<add_trace(p[1], p[2])>>
                     \o (IF last THEN <<add_trace(p[2], <<ex, ey>>)>> ELSE <<>>) :
                      first \in {a \/ b : a \in float_greater(Abs(sx - p[1][1]), SNAP_STEP),
                                          b \in float_greater(Abs(sy - p[1][2]), SNAP_STEP)},
                      last \in {a \/ b : a \in float_greater(Abs(p[2][1] - ex), SNAP_STEP),
                                         b \in float_greater(Abs(p[2][2] - ey), SNAP_STEP)}} :
                  p \in bends}
    IN  (IF TRUE \in aligned THEN {<<add_trace(<<sx, sy>>, <<ex, ey>>)>>} ELSE {})
          \cup (IF FALSE \in aligned THEN bent ELSE {})

MaxLTraceCalls == 1

LTraceStarts == {<<0, 0>>, <<10 * MM + 40, 10 * MM>>}
LTraceOffsets == {0, 100, 200, 300, 3100, MM, -200, -MM}
ChamferChoices == {3000, 0}

AddLTrace ==
    /\ Len(l_calls) < MaxLTraceCalls
    /\ \E start \in LTraceStarts, dx \in LTraceOffsets, dy \in LTraceOffsets,
          horizontal_first \in BOOLEAN, chamfer \in ChamferChoices :
          LET end == <<snap(start[1]) + dx, snap(start[2]) + dy>>
          IN  \E segs \in add_l_trace(start, end, horizontal_first, chamfer) :
                 /\ traceItems' = traceItems \o segs
                 /\ l_calls' = Append(l_calls, [start |-> start, end |-> end,
                                                horizontal_first |-> horizontal_first,
                                                chamfer |-> chamfer, segs |-> segs])
    /\ UNCHANGED restOfTrace

InitTrace ==
    /\ traceItems = <<>>
    /\ l_calls = <<>>
    /\ BaseIdle /\ RestOfTraceExtIdle

NextTrace == AddLTrace

SpecTrace == InitTrace /\ [][NextTrace]_vars

XExtent(seg) == Abs(seg[2][1] - seg[1][1])
YExtent(seg) == Abs(seg[2][2] - seg[1][2])

\* C27: the list returned for two points aligned on an axis is the one segment
\* between the rounded points; for any other two points it is a path of 1 to 3
\* segments from the rounded start to the rounded end, each segment beginning
\* where the one before it ended, with a diagonal of X and Y extent
\* d = min(chamfer, half of either leg).
C27_LTraceIsConnectedPath ==
    \A c \in 1..Len(l_calls) :
        LET segs == l_calls[c].segs
            s == <<snap(l_calls[c].start[1]), snap(l_calls[c].start[2])>>
            e == <<snap(l_calls[c].end[1]), snap(l_calls[c].end[2])>>
            d == Min3(l_calls[c].chamfer, Abs(e[1] - s[1]) \div 2, Abs(e[2] - s[2]) \div 2)
        IN  IF s[1] = e[1] \/ s[2] = e[2]
            THEN segs = <<<<s, e>>>>
            ELSE /\ Len(segs) \in 1..3
                 /\ segs[1][1] = s
                 /\ \A k \in 1..(Len(segs) - 1) : segs[k + 1][1] = segs[k][2]
                 /\ segs[Len(segs)][2] = e
                 /\ \E k \in 1..Len(segs) : XExtent(segs[k]) = d /\ YExtent(segs[k]) = d

\* the same without the two ends and the diagonal: the segments returned
\* always follow one another
LTraceSegmentsFollowOneAnother ==
    \A c \in 1..Len(l_calls) :
        /\ Len(l_calls[c].segs) \in 1..3
        /\ \A k \in 1..(Len(l_calls[c].segs) - 1) :
              l_calls[c].segs[k + 1][1] = l_calls[c].segs[k][2]

\* add_l_trace((0, 0), (0.02, 1.0)): the first leg, 0.01 mm long, is left out
\* and the path begins at (0.01, 0)
LTraceLeavesGapAtStart ==
    /\ Len(l_calls) = 1
    /\ l_calls[1].start = <<0, 0>> /\ l_calls[1].end = <<200, MM>>
    /\ l_calls[1].horizontal_first /\ l_calls[1].chamfer = 3000
    /\ l_calls[1].segs = <<<<<<100, 0>>, <<200, 100>>>>, <<<<200, 100>>, <<200, MM>>>>>>

(***************************************************************************)
(* verify_pcb._footprint_bbox and PCBBuilder.get_pad_position              *)
(*                                                                         *)
(* A footprint has a position, an angle (None or a right angle), pads with *)
(* a local position and a size (or None) and graphic items, each with the  *)
(* attributes start, end, position and center it has (None for the rest).  *)
(***************************************************************************)
\* `fp.position.angle or 0`; an angle is <<>> for None, else <<degrees>>
angle_or_0(angle) == IF angle = <<>> THEN 0 ELSE angle[1]

\* to_abs of _footprint_bbox
to_abs(fp, lx, ly) ==
    LET cos_a == CosSin(angle_or_0(fp.angle))[1]
        sin_a == CosSin(angle_or_0(fp.angle))[2]
    IN  <<fp.x + lx * cos_a - ly * sin_a, fp.y + lx * sin_a + ly * cos_a>>

\* math.hypot for the lengths met here: exact along an axis, else rounded down
hypot(dx, dy) ==
    IF dy = 0 THEN Abs(dx)
    ELSE IF dx = 0 THEN Abs(dy)
    ELSE CHOOSE r \in 0..(Abs(dx) + Abs(dy)) :
            r * r <= dx * dx + dy * dy /\ dx * dx + dy * dy < (r + 1) * (r + 1)

\* expand(ax, ay)
expand(bbox, ax, ay) ==
    <<Min2(bbox[1], ax), Min2(bbox[2], ay), Max2(bbox[3], ax), Max2(bbox[4], ay)>>

\* the loop over fp.pads
RECURSIVE bbox_pads(_, _, _)
bbox_pads(bbox, fp, pads) ==
    IF pads = <<>> THEN bbox
    ELSE LET pad == Head(pads)
             a == to_abs(fp, pad.x, pad.y)
             radius == IF pad.size # <<>> THEN Max2(pad.size[1], pad.size[2]) \div 2 ELSE 0
         IN  bbox_pads(expand(expand(bbox, a[1] - radius, a[2] - radius),
                              a[1] + radius, a[2] + radius), fp, Tail(pads))

expand_point(bbox, fp, pt) ==
    IF pt = <<>> THEN bbox
    ELSE expand(bbox, to_abs(fp, pt[1], pt[2])[1], to_abs(fp, pt[1], pt[2])[2])

\* the loop over fp.graphicItems
RECURSIVE bbox_items(_, _, _)
bbox_items(bbox, fp, items) ==
    IF items = <<>> THEN bbox
    ELSE LET gi == Head(items)
             ends == expand_point(expand_point(bbox, fp, gi.start), fp, gi.end)
             placed == expand_point(ends, fp, gi.position)
             round_it ==
                 IF gi.center # <<>> /\ gi.end # <<>>
                 THEN LET c == to_abs(fp, gi.center[1], gi.center[2])
                          e == to_abs(fp, gi.end[1], gi.end[2])
                          r == hypot(e[1] - c[1], e[2] - c[2])
                      IN  expand(expand(placed, c[1] - r, c[2] - r), c[1] + r, c[2] + r)
                 ELSE placed
         IN  bbox_items(round_it, fp, Tail(items))

footprint_bbox(fp) ==
    bbox_items(bbox_pads(<<fp.x, fp.y, fp.x, fp.y>>, fp, fp.pads), fp, fp.graphicItems)

\* get_pad_position for the footprint found under ref: <<>> stands for the
\* ValueError of a pad number the footprint does not have
RECURSIVE get_pad_position(_, _, _)
get_pad_position(fp, pads, pad_number) ==
    IF pads = <<>> THEN <<>>
    ELSE IF Head(pads).number = pad_number
    THEN LET cos_a == CosSin(angle_or_0(fp.angle))[1]
             sin_a == CosSin(angle_or_0(fp.angle))[2]
             px == Head(pads).x
             py == Head(pads).y
         IN  <<snap(fp.x + px * cos_a + py * sin_a), snap(fp.y - px * sin_a + py * cos_a)>>
    ELSE get_pad_position(fp, Tail(pads), pad_number)

MaxPads == 2
MaxPadChecks == 1

\* pad centres on and off the 0.01 mm grid, on and off the footprint's origin
PadPlaces == {<<0, 0>>, <<MM, 0>>, <<-MM, 0>>, <<0, 25400>>, <<4370, 0>>}
PadSizes == {<<>>, <<MM, 15000>>}
PadNumbers == <<"1", "2">>

GraphicItemChoices ==
    {<<>>,
     <<[start |-> <<-20000, -MM>>, end |-> <<20000, -MM>>, position |-> <<>>, center |-> <<>>]>>,
     <<[start |-> <<>>, end |-> <<>>, position |-> <<0, -30000>>, center |-> <<>>]>>,
     <<[start |-> <<>>, end |-> <<5000, 20000>>, position |-> <<>>, center |-> <<0, 20000>>]>>}

FootprintChoices ==
    {[x |-> 10 * MM, y |-> 20 * MM, angle |-> angle,
      pads |-> [k \in 1..Len(places) |->
                   [number |-> PadNumbers[k], x |-> places[k][1], y |-> places[k][2], size |-> size]],
      graphicItems |-> items] :
        angle \in {<<>>, <<0>>, <<90>>, <<180>>, <<270>>},
        places \in SeqsUpTo(PadPlaces, MaxPads) \ {<<>>},
        size \in PadSizes,
        items \in GraphicItemChoices}

\* the verifier measures a footprint, the generator asks for each of its pads
CheckFootprint ==
    /\ Len(pad_checks) < MaxPadChecks
    /\ \E fp \in FootprintChoices :
          pad_checks' = Append(pad_checks,
              [fp |-> fp,
               bbox |-> footprint_bbox(fp),
               pad_abs |-> [k \in 1..Len(fp.pads) |-> to_abs(fp, fp.pads[k].x, fp.pads[k].y)],
               pad_position |-> [k \in 1..Len(fp.pads) |->
                                    get_pad_position(fp, fp.pads, fp.pads[k].number)]])
    /\ UNCHANGED restOfPad

InitPad ==
    /\ pad_checks = <<>>
    /\ BaseIdle /\ RestOfPadExtIdle

NextPad == CheckFootprint

SpecPad == InitPad /\ [][NextPad]_vars

\* a point in a box widened by half a grid step
InBox(bbox, pt) ==
    /\ bbox[1] - SNAP_STEP \div 2 <= pt[1] /\ pt[1] <= bbox[3] + SNAP_STEP \div 2
    /\ bbox[2] - SNAP_STEP \div 2 <= pt[2] /\ pt[2] <= bbox[4] + SNAP_STEP \div 2

\* C28: for every footprint at 0, 90, 180 or 270 degrees and every pad, the
\* position to_abs gives the pad is, rounded to 0.01 mm, the position
\* get_pad_position returns, and the box of _footprint_bbox contains that
\* position.
C28_BboxTransformMatchesPadPosition ==
    \A c \in 1..Len(pad_checks) : \A k \in 1..Len(pad_checks[c].fp.pads) :
        /\ <<snap(pad_checks[c].pad_abs[k][1]), snap(pad_checks[c].pad_abs[k][2])>>
              = pad_checks[c].pad_position[k]
        /\ InBox(pad_checks[c].bbox, pad_checks[c].pad_position[k])

\* the same for footprints that are not turned or turned by a half turn
PadPositionsAgreeAtHalfTurns ==
    \A c \in 1..Len(pad_checks) : \A k \in 1..Len(pad_checks[c].fp.pads) :
        angle_or_0(pad_checks[c].fp.angle) \in {0, 180} =>
            /\ <<snap(pad_checks[c].pad_abs[k][1]), snap(pad_checks[c].pad_abs[k][2])>>
                  = pad_checks[c].pad_position[k]
            /\ InBox(pad_checks[c].bbox, pad_checks[c].pad_position[k])

\* a footprint at 90 degrees with its only pad 2.54 mm below its origin: the
\* verifier sees the pad 2.54 mm to the left, the generator 2.54 mm to the
\* right, outside the box
PadOutsideBoxAtQuarterTurn ==
    /\ Len(pad_checks) = 1
    /\ pad_checks[1].fp.angle = <<90>>
    /\ Len(pad_checks[1].fp.pads) = 1
    /\ pad_checks[1].fp.pads[1].size # <<>>
    /\ pad_checks[1].fp.graphicItems = <<>>
    /\ pad_checks[1].pad_abs[1] = <<10 * MM - 25400, 20 * MM>>
    /\ pad_checks[1].pad_position[1] = <<10 * MM + 25400, 20 * MM>>
    /\ ~InBox(pad_checks[1].bbox, pad_checks[1].pad_position[1])

(***************************************************************************)
(* UnionFind (verify.py) and _UnionFind (verify_schematics.py): any        *)
(* sequence of find and union calls                                        *)
(***************************************************************************)
MaxUfElements == 4
MaxUfCalls == 5

UfElements == 1..MaxUfElements

UfFind ==
    /\ uf_n < MaxUfCalls
    /\ \E x \in UfElements :
          LET found == find(uf_parent, x)
          IN  /\ uf_parent' = found.parent
              /\ uf_ret' = [x |-> x, root |-> found.root, was_new |-> x \notin DOMAIN uf_parent,
                            same_sets |-> \A a, b \in DOMAIN uf_parent :
                                (RootOf(uf_parent, a) = RootOf(uf_parent, b))
                                   <=> (RootOf(found.parent, a) = RootOf(found.parent, b))]
    /\ uf_n' = uf_n + 1
    /\ UNCHANGED <<uf_unions, restOfUf>>

UfUnion ==
    /\ uf_n < MaxUfCalls
    /\ \E a, b \in UfElements :
          /\ uf_parent' = union(uf_parent, a, b)
          /\ uf_unions' = uf_unions \cup {<<a, b>>}
    /\ uf_ret' = <<>>
    /\ uf_n' = uf_n + 1
    /\ UNCHANGED restOfUf

InitUf ==
    /\ uf_parent = << >>
    /\ uf_unions = {}
    /\ uf_ret = <<>>
    /\ uf_n = 0
    /\ BaseIdle /\ RestOfUfExtIdle

NextUf ==
    \/ UfFind
    \/ UfUnion

SpecUf == InitUf /\ [][NextUf]_vars

\* the element reached from x by k steps along _parent
RECURSIVE Ancestor(_, _, _)
Ancestor(p, x, k) == IF k = 0 THEN x ELSE Ancestor(p, p[x], k - 1)

\* C29: _parent has no cycle but the self-loops of the roots, so that find
\* terminates; find returns a root; two elements have the same root exactly
\* when a chain of union calls links them (or they are the same element); the
\* compression inside find leaves the sets as they were; and find of an
\* element not seen before makes it a root of its own.
C29_UnionFindKeepsPartition ==
    /\ \A x \in DOMAIN uf_parent :
          /\ uf_parent[x] \in DOMAIN uf_parent
          /\ LET top == Ancestor(uf_parent, x, Cardinality(DOMAIN uf_parent))
             IN  uf_parent[top] = top
          /\ \A k \in 1..Cardinality(DOMAIN uf_parent) :
                Ancestor(uf_parent, x, k) = x => uf_parent[x] = x
    /\ \A x, y \in UfElements :
          (RootOf(uf_parent, x) = RootOf(uf_parent, y)) <=> Linked(uf_unions, x, y)
    /\ uf_ret # <<>> =>
          /\ uf_ret.x \in DOMAIN uf_parent
          /\ uf_parent[uf_ret.root] = uf_ret.root
          /\ uf_ret.root = RootOf(uf_parent, uf_ret.x)
          /\ uf_ret.same_sets
          /\ uf_ret.was_new => uf_ret.root = uf_ret.x

\* 1-2-3 linked into a chain two deep, 4 never seen: find(1) returned the
\* root 3 and shortened the path of 1
C29_Witness ==
    /\ uf_unions = {<<1, 2>>, <<1, 3>>}
    /\ uf_ret # <<>> /\ uf_ret.x = 1 /\ uf_ret.root = 3 /\ ~uf_ret.was_new
    /\ uf_parent = (1 :> 3) @@ (2 :> 3) @@ (3 :> 3)
    /\ 4 \notin DOMAIN uf_parent

(***************************************************************************)
(* PCBBuilder: add_net, add_nets_from_netlist, add_zone                    *)
(***************************************************************************)
Net(number, name) == [number |-> number, name |-> name]

Builder(registered, counter, appended, zones) ==
    [nets |-> registered, net_counter |-> counter, board_nets |-> appended, zones |-> zones]

\* an add_net that makes a new net whether or not the name is registered
add_net_always_new(b, name) ==
    LET net == Net(b.net_counter + 1, name)
    IN  [builder |-> [b EXCEPT !.net_counter = @ + 1,
                               !.nets = (name :> net) @@ @,
                               !.board_nets = Append(@, net)],
         net |-> net]

\* add_net(name): the builder afterwards and the Net returned
add_net(b, name) ==
    IF name \in DOMAIN b.nets
    THEN [builder |-> b, net |-> b.nets[name]]
    ELSE LET net == Net(b.net_counter + 1, name)
         IN  [builder |-> [b EXCEPT !.net_counter = @ + 1,
                                    !.nets = (name :> net) @@ @,
                                    !.board_nets = Append(@, net)],
              net |-> net]

\* add_nets_from_netlist: the loop over netlist_data["net_list"]
RECURSIVE add_nets_from_netlist(_, _)
add_nets_from_netlist(b, net_list) ==
    IF net_list = <<>> THEN b
    ELSE LET net_name == Head(net_list)[2]
         IN  add_nets_from_netlist(
                 IF net_name # "" /\ net_name \notin DOMAIN b.nets
                 THEN add_net(b, net_name).builder ELSE b,
                 Tail(net_list))

\* add_zone: the net looked up, added when it is not there, and the zone appended
add_zone(b, net_name, layer) ==
    LET with_net == IF net_name \in DOMAIN b.nets THEN b ELSE add_net(b, net_name).builder
        net_obj == with_net.nets[net_name]
    IN  [with_net EXCEPT !.zones = Append(@, [net |-> net_obj.number, netName |-> net_name,
                                              layers |-> <<layer>>])]

PcbBuilder == Builder(pcb_nets, net_counter, board_nets, board_zones)

PcbSet(b) ==
    /\ pcb_nets' = b.nets
    /\ net_counter' = b.net_counter
    /\ board_nets' = b.board_nets
    /\ board_zones' = b.zones

MaxPcbCalls == 4
MaxNetListLen == 2

NetNameChoices == {"", "GND", "VCC", "/A0"}

\* entries (net_num, net_name, pins) of a parsed netlist
NetListChoices ==
    {[k \in 1..Len(names) |-> <<k, names[k], <<>>>>] : names \in SeqsUpTo(NetNameChoices, MaxNetListLen)}

\* the net names asked for so far bound the run
PcbCalls == Len(pcb_asked)

AddNet ==
    /\ PcbCalls < MaxPcbCalls
    /\ \E name \in NetNameChoices :
          LET done == add_net(PcbBuilder, name)
          IN  /\ PcbSet(done.builder)
              /\ pcb_ret' = [name |-> name, net |-> done.net,
                             was_registered |-> name \in DOMAIN pcb_nets,
                             before |-> PcbBuilder]
              /\ pcb_asked' = Append(pcb_asked, name)
    /\ UNCHANGED restOfPcb

AddNetsFromNetlist ==
    /\ PcbCalls < MaxPcbCalls
    /\ \E net_list \in NetListChoices \ {<<>>} :
          /\ PcbSet(add_nets_from_netlist(PcbBuilder, net_list))
          /\ pcb_asked' = pcb_asked \o [k \in 1..Len(net_list) |-> net_list[k][2]]
    /\ pcb_ret' = <<>>
    /\ UNCHANGED restOfPcb

AddZone ==
    /\ PcbCalls < MaxPcbCalls
    /\ \E net_name \in NetNameChoices :
          /\ PcbSet(add_zone(PcbBuilder, net_name, "In1.Cu"))
          /\ pcb_asked' = Append(pcb_asked, net_name)
    /\ pcb_ret' = <<>>
    /\ UNCHANGED restOfPcb

\* PCBBuilder.__init__
InitPcb ==
    /\ pcb_nets = ("" :> Net(0, ""))
    /\ net_counter = 0
    /\ board_nets = <<>>
    /\ board_zones = <<>>
    /\ pcb_ret = <<>>
    /\ pcb_asked = <<>>
    /\ BaseIdle /\ RestOfPcbExtIdle

NextPcb ==
    \/ AddNet
    \/ AddNetsFromNetlist
    \/ AddZone

SpecPcb == InitPcb /\ [][NextPcb]_vars

\* the named nets asked for so far, each once, in the order of the first request
NamedInOrder == SelectSeq(FirstOccurrences(pcb_asked), LAMBDA name : name # "")

\* C30: distinct names have distinct numbers; the named nets are numbered
\* 1..n in the order they were first asked for, each once in board.nets, and
\* number 0 stays with the unnamed net; add_net of a registered name returns the
\* registered Net and leaves counter and board.nets alone; a zone carries the
\* number of its net.
C30_NetNumbersFollowFirstAddition ==
    /\ pcb_nets[""] = Net(0, "")
    /\ \A a, b \in DOMAIN pcb_nets : a # b => pcb_nets[a].number # pcb_nets[b].number
    /\ DOMAIN pcb_nets = {""} \cup Range(NamedInOrder)
    /\ net_counter = Len(NamedInOrder)
    /\ board_nets = [k \in 1..Len(NamedInOrder) |-> Net(k, NamedInOrder[k])]
    /\ \A k \in 1..Len(board_nets) : pcb_nets[board_nets[k].name] = board_nets[k]
    /\ \A z \in 1..Len(board_zones) :
          board_zones[z].net = pcb_nets[board_zones[z].netName].number
    /\ pcb_ret # <<>> =>
          /\ pcb_ret.net = pcb_nets[pcb_ret.name]
          /\ pcb_ret.was_registered =>
                /\ pcb_ret.net = pcb_ret.before.nets[pcb_ret.name]
                /\ PcbBuilder = pcb_ret.before

\* GND added by a zone, VCC and GND again by a netlist, then add_net("GND"):
\* the Net numbered 1 comes back, two nets in board.nets
C30_Witness ==
    /\ pcb_asked = <<"GND", "VCC", "GND", "GND">>
    /\ Len(board_zones) = 1
    /\ pcb_ret # <<>> /\ pcb_ret.name = "GND" /\ pcb_ret.was_registered
    /\ pcb_ret.net = Net(1, "GND")
    /\ board_nets = <<Net(1, "GND"), Net(2, "VCC")>>
    /\ net_counter = 2

====
